---- MODULE Spec2Model ----
(***************************************************************************)
(* A model of the TAC cases report generator: the encoding and header      *)
(* detection of tac_utils.py / tac_data_processor.py, the column mapper,   *)
(* the data cleaner, the analytics engine of TACDataProcessor and the      *)
(* batch loop of TACAnalyzer.                                              *)
(*                                                                         *)
(* Python strings are TLA+ strings; Len, SubSeq, Head, Tail and \o are     *)
(* used on them.  A missing value (None) is the string NoneValue where a   *)
(* string is expected and the record NoDate where a datetime is expected.  *)
(***************************************************************************)
EXTENDS Integers, Sequences, FiniteSets, TLC

(* ----------------------------- bounds ---------------------------------- *)

\* longest list of column names drawn for the column mapper
MaxMapCols == 3

\* most columns of a table drawn for the analytics engine
MaxCols == 3

\* most rows of a table drawn for the analytics engine
MaxRows == 2

\* most lines of a CSV file drawn for the loader
MaxLines == 2

\* most entries of the input directory drawn for the batch loop
MaxFiles == 3

\* most calls made in a row on one drawn value
MaxCalls == 3

\* most rows of a table drawn for the summary metrics
MaxCases == 10

(* ------------------------- Python str methods --------------------------- *)

UpperLetters == <<"A","B","C","D","E","F","G","H","I","J","K","L","M",
                  "N","O","P","Q","R","S","T","U","V","W","X","Y","Z">>
LowerLetters == <<"a","b","c","d","e","f","g","h","i","j","k","l","m",
                  "n","o","p","q","r","s","t","u","v","w","x","y","z">>

Range(f) == {f[i] : i \in DOMAIN f}

\* the lower-case letter of every upper-case letter, and the reverse
ToLower == [c \in Range(UpperLetters) |->
               LowerLetters[CHOOSE i \in DOMAIN UpperLetters : UpperLetters[i] = c]]
ToUpper == [c \in Range(LowerLetters) |->
               UpperLetters[CHOOSE i \in DOMAIN LowerLetters : LowerLetters[i] = c]]

IsCasedChar(c) == c \in DOMAIN ToLower \/ c \in DOMAIN ToUpper

\* str.lower() / str.upper() on one character
LowerChar(c) == IF c \in DOMAIN ToLower THEN ToLower[c] ELSE c
UpperChar(c) == IF c \in DOMAIN ToUpper THEN ToUpper[c] ELSE c

RECURSIVE Lower(_)
Lower(s) == IF s = "" THEN "" ELSE LowerChar(Head(s)) \o Lower(Tail(s))

RECURSIVE Upper(_)
Upper(s) == IF s = "" THEN "" ELSE UpperChar(Head(s)) \o Upper(Tail(s))

\* the characters str.strip() removes
WhitespaceChars == {" ", "\t", "\n", "\r"}

CharAt(s, i) == SubSeq(s, i, i)

RECURSIVE LStripChars(_, _)
LStripChars(s, chars) ==
    IF s # "" /\ Head(s) \in chars THEN LStripChars(Tail(s), chars) ELSE s

RECURSIVE RStripChars(_, _)
RStripChars(s, chars) ==
    IF s # "" /\ CharAt(s, Len(s)) \in chars
    THEN RStripChars(SubSeq(s, 1, Len(s) - 1), chars)
    ELSE s

\* s.strip(chars)
StripChars(s, chars) == RStripChars(LStripChars(s, chars), chars)

\* s.strip()
Strip(s) == StripChars(s, WhitespaceChars)

\* sub in s
Contains(s, sub) ==
    \E i \in 1..(Len(s) - Len(sub) + 1) : SubSeq(s, i, i + Len(sub) - 1) = sub

\* s.startswith(prefix)
StartsWith(s, prefix) ==
    Len(s) >= Len(prefix) /\ SubSeq(s, 1, Len(prefix)) = prefix

\* s.split(sep)[0] for a one-character separator
RECURSIVE SplitFirst(_, _)
SplitFirst(s, sep) ==
    IF s = "" \/ Head(s) = sep THEN "" ELSE Head(s) \o SplitFirst(Tail(s), sep)

\* s.title(): a cased character is upper-cased after an uncased one (or at the
\* start) and lower-cased after a cased one
RECURSIVE TitleFrom(_, _)
TitleFrom(s, prevCased) ==
    IF s = "" THEN ""
    ELSE (IF prevCased THEN LowerChar(Head(s)) ELSE UpperChar(Head(s)))
         \o TitleFrom(Tail(s), IsCasedChar(Head(s)))

Title(s) == TitleFrom(s, FALSE)

(* ------------------------------ tac_utils ------------------------------- *)

\* None, where a string is expected
NoneValue == "<None>"

\* clean_text: null-like tokens collapse to 'N/A', anything else is stripped
clean_text(text) ==
    IF text = "" \/ Lower(text) \in {"nan", "none", "null"} THEN "N/A"
    ELSE LET t == Strip(text)
         IN  IF Lower(t) \in {"no value", "not available", "na", "n/a", ""}
             THEN "N/A"
             ELSE t

\* the dict with its numeric keys only: a severity word is not translated
severity_mapping_numbers_only(severity) ==
    CASE severity = "1" -> "1 - Critical"
      [] severity = "2" -> "2 - High"
      [] severity = "3" -> "3 - Medium"
      [] severity = "4" -> "4 - Low"
      [] OTHER          -> severity

\* the dict severity_mapping of normalize_severity, with dict.get(key, key)
severity_mapping(severity) ==
    CASE severity \in {"1", "critical", "1 - critical"} -> "1 - Critical"
      [] severity \in {"2", "high", "2 - high"}         -> "2 - High"
      [] severity \in {"3", "medium", "3 - medium"}     -> "3 - Medium"
      [] severity \in {"4", "low", "4 - low"}           -> "4 - Low"
      [] OTHER                                          -> severity

normalize_severity(severity) ==
    IF severity = "" \/ Lower(severity) \in {"nan", "none", "null", "no value"}
    THEN "Unknown"
    ELSE Title(severity_mapping(Lower(clean_text(severity))))

(* ------------------- TACDataProcessor: column mapper -------------------- *)

\* self.expected_columns, in declaration order
expected_columns == <<
    [key |-> "reference",         variants |-> <<"Reference #", "Reference", "Case #", "Case Number", "Ticket #">>],
    [key |-> "subject",           variants |-> <<"Subject", "Title", "Summary", "Description">>],
    [key |-> "status",            variants |-> <<"Status", "Case Status", "State">>],
    [key |-> "date_created",      variants |-> <<"Date Created", "Created Date", "Created", "Open Date">>],
    [key |-> "queue",             variants |-> <<"Queue", "Team", "Group", "Assignment Group">>],
    [key |-> "internal_case",     variants |-> <<"Internal Case", "Internal", "Is Internal">>],
    [key |-> "end_customer",      variants |-> <<"End Customer", "Customer", "Company", "Organization">>],
    [key |-> "full_name",         variants |-> <<"Full Name", "Name", "Contact Name", "Engineer Name">>],
    [key |-> "email",             variants |-> <<"Email Address", "Email", "Contact Email">>],
    [key |-> "date_responded",    variants |-> <<"Date Last Responded", "Last Response", "Last Updated">>],
    [key |-> "assigned_account",  variants |-> <<"Assigned Account", "Assigned Engineer", "Owner">>],
    [key |-> "product_hierarchy", variants |-> <<"Product Hierarchy", "Product", "Product Line">>],
    [key |-> "product_version",   variants |-> <<"Product_Version", "Version", "Product Version">>],
    [key |-> "jira_case",         variants |-> <<"Jira Case", "Jira", "Jira Ticket">>],
    [key |-> "nfr",               variants |-> <<"NFR", "Enhancement Request">>],
    [key |-> "severity",          variants |-> <<"Severity", "Priority", "Urgency">>],
    [key |-> "jira_bug",          variants |-> <<"Jira Bug", "Bug", "Bug ID">>],
    [key |-> "experienced_bug",   variants |-> <<"Experienced Bug", "Known Bug", "Bug Found">>],
    [key |-> "related_case",      variants |-> <<"Similar/Related Case", "Related Cases", "Similar Cases">>],
    [key |-> "category",          variants |-> <<"Category", "Case Category", "Issue Category">>],
    [key |-> "resolution_code_1", variants |-> <<"Resolution Code 1", "Resolution Code", "Primary Resolution">>],
    [key |-> "resolution_time",   variants |-> <<"Resolution Time", "Resolution Time ", "Time to Resolution", "TTR">>]
>>

SemanticKeys == {expected_columns[i].key : i \in DOMAIN expected_columns}

\* dict[key] = value
DictSet(d, k, v) == [x \in DOMAIN d \cup {k} |-> IF x = k THEN v ELSE d[x]]

\* a for loop that breaks at the first hit: the first element of seq whose
\* flag is set, or NoneValue when the loop runs to its end
FirstHit(seq, flags) ==
    IF \E i \in DOMAIN seq : flags[i]
    THEN seq[CHOOSE i \in DOMAIN seq : flags[i] /\ \A j \in 1..(i - 1) : ~flags[j]]
    ELSE NoneValue

\* variant.lower() for every variant of every standard name
lower_variants ==
    [e \in DOMAIN expected_columns |->
        [v \in DOMAIN expected_columns[e].variants |->
            Lower(expected_columns[e].variants[v])]]

\* actual_col.strip().lower() for every column
StrippedLower(actual_columns) ==
    [i \in DOMAIN actual_columns |-> Lower(Strip(actual_columns[i]))]

\* inner loops that go through the columns first: the first column that equals
\* any variant of standard name e
MapVariants_by_column_order(actual_columns, stripped, e, v) ==
    FirstHit(actual_columns,
             [i \in DOMAIN stripped |->
                 \E w \in v..Len(lower_variants[e]) : stripped[i] = lower_variants[e][w]])

\* the two inner loops of _create_column_mapping for standard name e: the
\* variants in priority order, for each the columns in order, the first column
\* with actual_col.strip().lower() == variant.lower() ends both loops
RECURSIVE MapVariants(_, _, _, _)
MapVariants(actual_columns, stripped, e, v) ==
    IF v > Len(lower_variants[e]) THEN NoneValue
    ELSE IF \E i \in DOMAIN stripped : stripped[i] = lower_variants[e][v]
         THEN FirstHit(actual_columns,
                       [i \in DOMAIN stripped |-> stripped[i] = lower_variants[e][v]])
         ELSE MapVariants(actual_columns, stripped, e, v + 1)

\* self.column_mapping[standard_name] = actual_col, when a column was found
MapTo(mapping, key, hit) == IF hit # NoneValue THEN DictSet(mapping, key, hit) ELSE mapping

\* the outer loop of _create_column_mapping over expected_columns.items()
RECURSIVE CreateColumnMappingFrom(_, _, _, _)
CreateColumnMappingFrom(mapping, actual_columns, stripped, e) ==
    IF e > Len(expected_columns) THEN mapping
    ELSE CreateColumnMappingFrom(
             MapTo(mapping, expected_columns[e].key,
                   MapVariants(actual_columns, stripped, e, 1)),
             actual_columns, stripped, e + 1)

_create_column_mapping(mapping, actual_columns) ==
    CreateColumnMappingFrom(mapping, actual_columns, StrippedLower(actual_columns), 1)

\* the essential columns of _validate_columns, in order
essential_columns == <<"reference", "status", "date_created">>

\* the keywords _find_alternative_columns looks for
alternative_words(missing) ==
    CASE missing = "reference"    -> <<"case", "ticket", "ref", "#">>
      [] missing = "status"       -> <<"status", "state">>
      [] missing = "date_created" -> <<"date", "created", "open">>
      [] OTHER                    -> << >>

\* any(word in col.lower() for word in words)
HasAnyWord(col, words) == \E w \in DOMAIN words : Contains(Lower(col), words[w])

\* _find_alternative_columns over the missing essential columns, in order
RECURSIVE FindAlternativeFrom(_, _, _, _)
FindAlternativeFrom(mapping, actual_columns, missing_columns, m) ==
    IF m > Len(missing_columns) THEN mapping
    ELSE FindAlternativeFrom(
             MapTo(mapping, missing_columns[m],
                   FirstHit(actual_columns,
                            [i \in DOMAIN actual_columns |->
                                HasAnyWord(actual_columns[i],
                                           alternative_words(missing_columns[m]))])),
             actual_columns, missing_columns, m + 1)

_find_alternative_columns(mapping, actual_columns, missing_columns) ==
    FindAlternativeFrom(mapping, actual_columns, missing_columns, 1)

\* _validate_columns: the essential columns still unmapped go to the fallback
_validate_columns(mapping, actual_columns) ==
    LET missing_essential ==
            SelectSeq(essential_columns, LAMBDA col : col \notin DOMAIN mapping)
    IN  IF missing_essential # << >>
        THEN _find_alternative_columns(mapping, actual_columns, missing_essential)
        ELSE mapping


(* ----------------------- tac_utils: date parsing ------------------------ *)

Digits == <<"0", "1", "2", "3", "4", "5", "6", "7", "8", "9">>

\* int(c) for every digit c
DigitValues == [c \in Range(Digits) |-> (CHOOSE i \in DOMAIN Digits : Digits[i] = c) - 1]

IsDigit(c) == c \in DOMAIN DigitValues

AllDigits(s) == \A i \in 1..Len(s) : IsDigit(CharAt(s, i))

\* int(s) for a string of digits
RECURSIVE ToInt(_)
ToInt(s) ==
    IF s = "" THEN 0
    ELSE 10 * ToInt(SubSeq(s, 1, Len(s) - 1)) + DigitValues[CharAt(s, Len(s))]

\* a datetime; None is NoDate (year 0 is no datetime year)
NoDate == [year |-> 0, month |-> 0, day |-> 0, hour |-> 0, minute |-> 0, second |-> 0]

\* what strptime has read so far: the defaults of an empty parse
StrptimeStart == [Y |-> 1900, m |-> 1, d |-> 1, H |-> 0, I |-> 0, M |-> 0, S |-> 0, p |-> ""]

StrptimeFail == [Y |-> 0, m |-> 0, d |-> 0, H |-> 0, I |-> 0, M |-> 0, S |-> 0, p |-> "fail"]

\* the alternatives of a directive's regular expression, in the order the regex
\* tries them: <<length, least value, greatest value>>
DirectiveAlternatives(tok) ==
    CASE tok = "%Y" -> << <<4, 0, 9999>> >>
      [] tok = "%m" -> << <<2, 1, 12>>, <<1, 1, 9>> >>
      [] tok = "%d" -> << <<2, 1, 31>>, <<1, 1, 9>> >>
      [] tok = "%H" -> << <<2, 0, 23>>, <<1, 0, 9>> >>
      [] tok = "%I" -> << <<2, 1, 12>>, <<1, 1, 9>> >>
      [] tok = "%M" -> << <<2, 0, 59>>, <<1, 0, 9>> >>
      [] tok = "%S" -> << <<2, 0, 61>>, <<1, 0, 9>> >>
      [] OTHER      -> << >>

DirectiveField(tok) == SubSeq(tok, 2, 2)

\* strptime's regular-expression match of date_string from token t of the
\* format on: the fields read, or StrptimeFail.  The whole string must match.
RECURSIVE StrptimeMatch(_, _, _, _)
RECURSIVE StrptimeAlternative(_, _, _, _, _)
StrptimeMatch(str, fmt, t, acc) ==
    IF t > Len(fmt) THEN (IF str = "" THEN acc ELSE StrptimeFail)
    ELSE LET tok == fmt[t]
         IN  CASE tok = " " ->
                    \* whitespace in a format matches one or more whitespace
                    IF str # "" /\ Head(str) \in WhitespaceChars
                    THEN StrptimeMatch(LStripChars(str, WhitespaceChars), fmt, t + 1, acc)
                    ELSE StrptimeFail
               [] tok = "%p" ->
                    IF Len(str) >= 2 /\ Lower(SubSeq(str, 1, 2)) \in {"am", "pm"}
                    THEN StrptimeMatch(SubSeq(str, 3, Len(str)), fmt, t + 1,
                                       [acc EXCEPT !.p = Lower(SubSeq(str, 1, 2))])
                    ELSE StrptimeFail
               [] Len(tok) = 2 /\ Head(tok) = "%" ->
                    StrptimeAlternative(str, fmt, t, acc, 1)
               [] OTHER ->
                    IF str # "" /\ Head(str) = tok
                    THEN StrptimeMatch(Tail(str), fmt, t + 1, acc)
                    ELSE StrptimeFail

\* a regex alternative that fails, or whose rest fails, gives way to the next
OrElse(first, second) == IF first # StrptimeFail THEN first ELSE second

\* whether the first n characters of str are a number between lo and hi
NumberFits(str, n, lo, hi) ==
    /\ Len(str) >= n
    /\ AllDigits(SubSeq(str, 1, n))
    /\ ToInt(SubSeq(str, 1, n)) >= lo
    /\ ToInt(SubSeq(str, 1, n)) <= hi

StrptimeAlternative(str, fmt, t, acc, a) ==
    IF a > Len(DirectiveAlternatives(fmt[t])) THEN StrptimeFail
    ELSE OrElse(
             IF NumberFits(str, DirectiveAlternatives(fmt[t])[a][1],
                           DirectiveAlternatives(fmt[t])[a][2],
                           DirectiveAlternatives(fmt[t])[a][3])
             THEN StrptimeMatch(
                      SubSeq(str, DirectiveAlternatives(fmt[t])[a][1] + 1, Len(str)),
                      fmt, t + 1,
                      [acc EXCEPT ![DirectiveField(fmt[t])] =
                          ToInt(SubSeq(str, 1, DirectiveAlternatives(fmt[t])[a][1]))])
             ELSE StrptimeFail,
             StrptimeAlternative(str, fmt, t, acc, a + 1))

IsLeapYear(y) == (y % 4 = 0 /\ y % 100 # 0) \/ y % 400 = 0

DaysInMonth(y, m) ==
    CASE m \in {4, 6, 9, 11} -> 30
      [] m = 2               -> IF IsLeapYear(y) THEN 29 ELSE 28
      [] OTHER               -> 31

\* the datetime strptime builds from the fields it read, or NoDate for the
\* ValueError of a date or time out of range
StrptimeDatetime(got) ==
    IF \/ got = StrptimeFail
       \/ got.Y < 1
       \/ got.d > DaysInMonth(got.Y, got.m)
       \/ got.S > 59
    THEN NoDate
    ELSE [year |-> got.Y, month |-> got.m, day |-> got.d,
          hour |-> IF got.I = 0 THEN got.H
                   ELSE (got.I % 12) + (IF got.p = "pm" THEN 12 ELSE 0),
          minute |-> got.M, second |-> got.S]

\* datetime.strptime(date_str, fmt): the datetime, or NoDate for ValueError
strptime(date_str, fmt) ==
    StrptimeDatetime(StrptimeMatch(date_str, fmt, 1, StrptimeStart))

\* the explicit formats with the day-first ones moved to the front
common_formats_day_first == <<
    <<"%d", "/", "%m", "/", "%Y", " ", "%H", ":", "%M", ":", "%S">>,
    <<"%d", "/", "%m", "/", "%Y">>,
    <<"%m", "/", "%d", "/", "%Y", " ", "%I", ":", "%M", " ", "%p">>,
    <<"%m", "/", "%d", "/", "%Y", " ", "%H", ":", "%M", ":", "%S">>,
    <<"%m", "/", "%d", "/", "%Y">>,
    <<"%Y", "-", "%m", "-", "%d", " ", "%H", ":", "%M", ":", "%S">>,
    <<"%Y", "-", "%m", "-", "%d">>,
    <<"%Y", "/", "%m", "/", "%d", " ", "%H", ":", "%M", ":", "%S">>,
    <<"%Y", "/", "%m", "/", "%d">>,
    <<"%m", "-", "%d", "-", "%Y", " ", "%H", ":", "%M", ":", "%S">>,
    <<"%m", "-", "%d", "-", "%Y">>
>>

\* common_formats of parse_date_flexible, in list order, each as its tokens
common_formats == <<
    <<"%m", "/", "%d", "/", "%Y", " ", "%I", ":", "%M", " ", "%p">>,
    <<"%m", "/", "%d", "/", "%Y", " ", "%H", ":", "%M", ":", "%S">>,
    <<"%m", "/", "%d", "/", "%Y">>,
    <<"%Y", "-", "%m", "-", "%d", " ", "%H", ":", "%M", ":", "%S">>,
    <<"%Y", "-", "%m", "-", "%d">>,
    <<"%d", "/", "%m", "/", "%Y", " ", "%H", ":", "%M", ":", "%S">>,
    <<"%d", "/", "%m", "/", "%Y">>,
    <<"%Y", "/", "%m", "/", "%d", " ", "%H", ":", "%M", ":", "%S">>,
    <<"%Y", "/", "%m", "/", "%d">>,
    <<"%m", "-", "%d", "-", "%Y", " ", "%H", ":", "%M", ":", "%S">>,
    <<"%m", "-", "%d", "-", "%Y">>
>>

\* dateutil's parser.parse, the last resort: of the strings drawn here it reads
\* the ISO form with a 'T' between date and time, which no explicit format
\* covers, and raises ValueError (NoDate) on the others
dateutil_parse(date_str) ==
    strptime(date_str, <<"%Y", "-", "%m", "-", "%d", "T", "%H", ":", "%M", ":", "%S">>)

\* return the datetime of a format that parsed, else go on with the next
ParsedOrNext(parsed, next) == IF parsed # NoDate THEN parsed ELSE next

\* the loop over common_formats: the first format that parses wins
RECURSIVE TryFormats(_, _)
TryFormats(date_str, f) ==
    IF f > Len(common_formats) THEN dateutil_parse(date_str)
    ELSE ParsedOrNext(strptime(date_str, common_formats[f]),
                      TryFormats(date_str, f + 1))

parse_date_flexible(date_str) ==
    IF date_str = "" \/ Lower(date_str) \in {"nan", "none", "null", ""}
    THEN NoDate
    ELSE TryFormats(Strip(date_str), 1)

\* date.toordinal() up to a constant: days since 1970-01-01
DaysFromCivil(y, m, d) ==
    LET yy  == IF m <= 2 THEN y - 1 ELSE y
        era == yy \div 400
        yoe == yy - era * 400
        mp  == IF m > 2 THEN m - 3 ELSE m + 9
        doy == (153 * mp + 2) \div 5 + d - 1
        doe == yoe * 365 + yoe \div 4 - yoe \div 100 + doy
    IN  era * 146097 + doe - 719468

\* seconds on the time line, for comparing and subtracting datetimes
Timestamp(dt) ==
    DaysFromCivil(dt.year, dt.month, dt.day) * 86400
        + dt.hour * 3600 + dt.minute * 60 + dt.second

\* (end - start).days
DeltaDays(end, start) == (Timestamp(end) - Timestamp(start)) \div 86400


(* ------------------- TACDataProcessor: the data table ------------------- *)

\* A table (DataFrame) is its column names, in order, and its rows; a row maps
\* each column name to a cell.  A cell is a string, or NaNCell for the NaN
\* pandas reads from an empty cell.  The tables drawn here hold text: a column
\* has dtype object unless every cell of it is NaN.
NaNCell == "<NaN>"

\* str(x) / Series.astype(str) on a cell
Str(cell) == IF cell = NaNCell THEN "nan" ELSE cell

\* pd.notna(x)
notna(cell) == cell # NaNCell

\* self.data[col].dtype == 'object'
IsObjectColumn(data, col) == \E i \in DOMAIN data : data[i][col] # NaNCell

\* str(n) for n >= 0, and the format spec 02d
RECURSIVE IntToStr(_)
IntToStr(n) ==
    IF n < 10 THEN Digits[n + 1] ELSE IntToStr(n \div 10) \o Digits[(n % 10) + 1]

Pad2(n) == IF n < 10 THEN "0" \o IntToStr(n) ELSE IntToStr(n)

Pad4(n) ==
    CASE n < 10   -> "000" \o IntToStr(n)
      [] n < 100  -> "00" \o IntToStr(n)
      [] n < 1000 -> "0" \o IntToStr(n)
      [] OTHER    -> IntToStr(n)

\* round(num / den, 0) for num >= 0, den > 0: to the nearest integer, a tie to
\* the even one
RoundDiv(num, den) ==
    LET q == num \div den
        r == num % den
    IN  CASE 2 * r < den -> q
          [] 2 * r > den -> q + 1
          [] OTHER       -> IF q % 2 = 0 THEN q ELSE q + 1

\* sum over a sequence of integers
RECURSIVE SumSeq(_)
SumSeq(seq) == IF seq = << >> THEN 0 ELSE Head(seq) + SumSeq(Tail(seq))

\* Series.value_counts().to_dict(): NaN is not counted
value_counts(data, col) ==
    LET vals == {data[i][col] : i \in DOMAIN data} \ {NaNCell}
    IN  [v \in vals |-> Cardinality({i \in DOMAIN data : data[i][col] = v})]

\* the regular expression of the footer filter, r'Record Count|Total|Summary|^$'
\* with case=False, searched in the text
FooterPattern(text) ==
    \/ Contains(Lower(text), "record count")
    \/ Contains(Lower(text), "total")
    \/ Contains(Lower(text), "summary")
    \/ text = ""

\* a footer filter that drops the first matching row only
RemoveFooterRows_first_match_only(columns, rows) ==
    LET hits == IF Len(columns) > 0
                THEN {i \in DOMAIN rows : FooterPattern(Str(rows[i][columns[1]]))}
                ELSE {}
    IN  IF hits = {} THEN rows
        ELSE LET first == CHOOSE i \in hits : \A j \in hits : i <= j
             IN  [i \in 1..(Len(rows) - 1) |->
                     IF i < first THEN rows[i] ELSE rows[i + 1]]

\* the footer filter of _load_csv_file and _load_excel_file on the table read
RemoveFooterRows(columns, rows) ==
    IF Len(rows) > 0 /\ Len(columns) > 0
    THEN SelectSeq(rows, LAMBDA row : ~FooterPattern(Str(row[columns[1]])))
    ELSE rows

\* _clean_data: clean_text on every object column, then normalize_severity on
\* the mapped severity column
_clean_data(data, columns, mapping) ==
    LET cleaned(row, col) ==
            IF IsObjectColumn(data, col) THEN clean_text(Str(row[col])) ELSE row[col]
        severity_col == IF "severity" \in DOMAIN mapping
                        THEN mapping["severity"] ELSE NoneValue
        final(row, col) ==
            IF col = severity_col
            THEN normalize_severity(Str(cleaned(row, col)))
            ELSE cleaned(row, col)
    IN  [i \in DOMAIN data |-> [col \in Range(columns) |-> final(data[i], col)]]

\* min / max of a non-empty set of datetimes
MinDate(dates) == CHOOSE d \in dates : \A e \in dates : Timestamp(d) <= Timestamp(e)
MaxDate(dates) == CHOOSE d \in dates : \A e \in dates : Timestamp(d) >= Timestamp(e)

NoDateRange == [start |-> NoDate, end |-> NoDate, days |-> 0]

\* the range of the dates that parsed
DateRangeOf(dates) ==
    IF dates # {}
    THEN [start |-> MinDate(dates), end |-> MaxDate(dates),
          days |-> DeltaDays(MaxDate(dates), MinDate(dates)) + 1]
    ELSE NoDateRange

_get_date_range(data, mapping) ==
    IF "date_created" \notin DOMAIN mapping THEN NoDateRange
    ELSE DateRangeOf(
             {parse_date_flexible(Str(data[i][mapping["date_created"]])) :
                 i \in {j \in DOMAIN data :
                           /\ notna(data[j][mapping["date_created"]])
                           /\ Str(data[j][mapping["date_created"]]) # "nan"}}
             \ {NoDate})

_get_missing_columns(mapping) ==
    SelectSeq([e \in DOMAIN expected_columns |-> expected_columns[e].key],
              LAMBDA col : col \notin DOMAIN mapping)

\* re.search(r'(\d+)<unit>', time_str): the number of the leftmost run of digits
\* that the unit letter follows at once, or -1 when there is no match
NumberBeforeUnit(time_str, unit) ==
    LET ends == {i \in 2..Len(time_str) :
                    CharAt(time_str, i) = unit /\ IsDigit(CharAt(time_str, i - 1))}
    IN  IF ends = {} THEN -1
        ELSE LET e == CHOOSE i \in ends : \A j \in ends : i <= j
                 b == CHOOSE i \in 1..(e - 1) :
                          /\ AllDigits(SubSeq(time_str, i, e - 1))
                          /\ \A j \in 1..(i - 1) : ~AllDigits(SubSeq(time_str, j, e - 1))
             IN  ToInt(SubSeq(time_str, b, e - 1))

\* a duration parser that takes the hours for minutes
_parse_resolution_time_hours_as_minutes(time_str) ==
    LET str == Strip(Lower(time_str))
        days_match    == NumberBeforeUnit(str, "d")
        hours_match   == NumberBeforeUnit(str, "h")
        minutes_match == NumberBeforeUnit(str, "m")
    IN  (IF days_match >= 0 THEN days_match * 24 * 60 ELSE 0)
          + (IF hours_match >= 0 THEN hours_match ELSE 0)
          + (IF minutes_match >= 0 THEN minutes_match ELSE 0)

_parse_resolution_time(time_str) ==
    LET str == Strip(Lower(time_str))
        days_match    == NumberBeforeUnit(str, "d")
        hours_match   == NumberBeforeUnit(str, "h")
        minutes_match == NumberBeforeUnit(str, "m")
    IN  (IF days_match >= 0 THEN days_match * 24 * 60 ELSE 0)
          + (IF hours_match >= 0 THEN hours_match * 60 ELSE 0)
          + (IF minutes_match >= 0 THEN minutes_match ELSE 0)

\* row.get(col, default) followed by str and clean_text, as the row loops do
CleanCell(row, col) == clean_text(Str(row[col]))

_calculate_average_ttr(data, mapping) ==
    IF "resolution_time" \notin DOMAIN mapping THEN "N/A"
    ELSE LET resolution_col == mapping["resolution_time"]
             counted == SelectSeq(data, LAMBDA row :
                            /\ CleanCell(row, resolution_col) # "N/A"
                            /\ _parse_resolution_time(CleanCell(row, resolution_col)) > 0)
             resolution_times ==
                 [i \in DOMAIN counted |->
                     _parse_resolution_time(CleanCell(counted[i], resolution_col))]
         IN  IF resolution_times = << >> THEN "N/A"
             ELSE LET avg_minutes == SumSeq(resolution_times) \div Len(resolution_times)
                      days    == avg_minutes \div (24 * 60)
                      hours   == (avg_minutes % (24 * 60)) \div 60
                      minutes == avg_minutes % 60
                  IN  Pad2(days) \o "d:" \o Pad2(hours) \o "h:" \o Pad2(minutes) \o "m"


(* ------------------ TACDataProcessor: analytics engine ------------------ *)

\* Numbers that the code rounds to one decimal are kept in tenths: 12.3 is 123.

\* the counts of the cleaned values of col over rows, as the row loops build them
CountBy(rows, col) ==
    LET vals == {CleanCell(rows[i], col) : i \in DOMAIN rows}
    IN  [v \in vals |-> Cardinality({i \in DOMAIN rows : CleanCell(rows[i], col) = v})]

\* the summary with the months of the date range not floored at one
_get_summary_metrics_without_floor(data, mapping) ==
    LET total_cases == Len(data)
        date_range  == _get_date_range(data, mapping)
        status_counts == IF "status" \in DOMAIN mapping
                         THEN value_counts(data, mapping["status"]) ELSE << >>
        days == date_range.days
    IN  [total_cases       |-> total_cases,
         date_range        |-> date_range,
         status_breakdown  |-> status_counts,
         cases_per_month   |->
             IF date_range.start # NoDate /\ date_range.end # NoDate
             THEN RoundDiv(total_cases * 10 * 3044, days * 100)
             ELSE 0,
         avg_cases_per_day |-> RoundDiv(total_cases * 10, IF days > 1 THEN days ELSE 1),
         average_ttr       |-> _calculate_average_ttr(data, mapping)]

_get_summary_metrics(data, mapping) ==
    LET total_cases == Len(data)
        date_range  == _get_date_range(data, mapping)
        status_counts == IF "status" \in DOMAIN mapping
                         THEN value_counts(data, mapping["status"]) ELSE << >>
        days == date_range.days
        \* months = days / 30.44 ; total_cases / max(months, 1)
        cases_per_month ==
            IF date_range.start # NoDate /\ date_range.end # NoDate
            THEN IF days * 100 <= 3044
                 THEN total_cases * 10
                 ELSE RoundDiv(total_cases * 10 * 3044, days * 100)
            ELSE 0
    IN  [total_cases       |-> total_cases,
         date_range        |-> date_range,
         status_breakdown  |-> status_counts,
         cases_per_month   |-> cases_per_month,
         avg_cases_per_day |-> RoundDiv(total_cases * 10, IF days > 1 THEN days ELSE 1),
         average_ttr       |-> _calculate_average_ttr(data, mapping)]

\* parsed_date.strftime('%Y-%m')
MonthKey(dt) == Pad4(dt.year) \o "-" \o Pad2(dt.month)

\* the rows of data whose index is in keep, in order
RowsAt(data, keep) ==
    LET RECURSIVE Pick(_)
        Pick(i) == IF i > Len(data) THEN << >>
                   ELSE (IF i \in keep THEN <<data[i]>> ELSE << >>) \o Pick(i + 1)
    IN  Pick(1)

\* the loop of _get_monthly_trends, given for every row its parsed date
\* (NoDate for a row the loop skips)
MonthlyTrendsOf(data, mapping, parsed) ==
    LET months == {MonthKey(parsed[i]) : i \in {j \in DOMAIN data : parsed[j] # NoDate}}
        InMonth(mk) ==
            RowsAt(data, {j \in DOMAIN data :
                             parsed[j] # NoDate /\ MonthKey(parsed[j]) = mk})
    IN  [available |-> TRUE,
         monthly_counts |-> [mk \in months |-> Len(InMonth(mk))],
         monthly_status |->
             IF "status" \in DOMAIN mapping
             THEN [mk \in months |-> CountBy(InMonth(mk), mapping["status"])]
             ELSE << >>,
         monthly_severity |->
             IF "severity" \in DOMAIN mapping
             THEN [mk \in months |-> CountBy(InMonth(mk), mapping["severity"])]
             ELSE << >>]

_get_monthly_trends(data, mapping) ==
    IF "date_created" \notin DOMAIN mapping
    THEN [available |-> FALSE, reason |-> "No date created column found"]
    ELSE MonthlyTrendsOf(data, mapping,
             [i \in DOMAIN data |->
                 IF Str(data[i][mapping["date_created"]]) # "nan"
                 THEN parse_date_flexible(Str(data[i][mapping["date_created"]]))
                 ELSE NoDate])

\* sum(d.values())
SumValues(d) ==
    LET RECURSIVE SumOver(_)
        SumOver(keys) == IF keys = {} THEN 0
                         ELSE LET k == CHOOSE x \in keys : TRUE
                              IN  d[k] + SumOver(keys \ {k})
    IN  SumOver(DOMAIN d)

_get_severity_analysis(data, mapping) ==
    IF "severity" \notin DOMAIN mapping
    THEN [available |-> FALSE, reason |-> "No severity column found"]
    ELSE LET severity_counts == value_counts(data, mapping["severity"])
             total == SumValues(severity_counts)
         IN  [available |-> TRUE,
              counts |-> severity_counts,
              \* the comprehension divides by total once per counted value
              percentages |-> [k \in DOMAIN severity_counts |->
                                  RoundDiv(severity_counts[k] * 1000, total)],
              total |-> total]

\* the nested value counts of inner_col within each value of outer_col
NestedCounts(data, outer_col, inner_col) ==
    [v \in DOMAIN value_counts(data, outer_col) |->
        value_counts(SelectSeq(data, LAMBDA row : row[outer_col] = v), inner_col)]

_get_product_analysis(data, mapping) ==
    IF "product_hierarchy" \notin DOMAIN mapping
    THEN [available |-> FALSE, reason |-> "No product hierarchy column found"]
    ELSE [available |-> TRUE,
          product_counts |-> value_counts(data, mapping["product_hierarchy"]),
          version_analysis |->
              IF "product_version" \in DOMAIN mapping
              THEN NestedCounts(data, mapping["product_hierarchy"],
                                mapping["product_version"])
              ELSE << >>]

\* re.search(prefix + r'\d+', bug_value, re.IGNORECASE), prefix in lower case
HasBugId(bug_value, prefix) ==
    \E i \in 1..Len(bug_value) :
        /\ i + Len(prefix) <= Len(bug_value)
        /\ Lower(SubSeq(bug_value, i, i + Len(prefix) - 1)) = prefix
        /\ IsDigit(CharAt(bug_value, i + Len(prefix)))

\* bug_patterns of _is_bug_case
bug_patterns == <<"al-", "cycon-", "bug-", "def-">>

\* a bug test with the DefensePro identifier DP-<digits> among the patterns
_is_bug_case_with_dp(bug_value) ==
    IF bug_value = "" \/ Lower(bug_value) \in {"n/a", "no value", "none", ""}
    THEN FALSE
    ELSE \/ \E b \in DOMAIN bug_patterns : HasBugId(bug_value, bug_patterns[b])
         \/ HasBugId(bug_value, "dp-")

\* a bug test that accepts an identifier at the start of the value only
_is_bug_case_at_start(bug_value) ==
    \E b \in DOMAIN bug_patterns :
        /\ Len(bug_value) > Len(bug_patterns[b])
        /\ Lower(SubSeq(bug_value, 1, Len(bug_patterns[b]))) = bug_patterns[b]
        /\ IsDigit(CharAt(bug_value, Len(bug_patterns[b]) + 1))

_is_bug_case(bug_value) ==
    IF bug_value = "" \/ Lower(bug_value) \in {"n/a", "no value", "none", ""}
    THEN FALSE
    ELSE \E b \in DOMAIN bug_patterns : HasBugId(bug_value, bug_patterns[b])

\* a type extraction that knows the named prefixes only
_extract_bug_type_without_other(bug_value) ==
    CASE bug_value = ""                           -> NoneValue
      [] StartsWith(Upper(bug_value), "AL-")      -> "Alteon"
      [] StartsWith(Upper(bug_value), "CYCON-")   -> "CyberController"
      [] StartsWith(Upper(bug_value), "DP-")      -> "DefensePro"
      [] \/ Contains(Upper(bug_value), "BUG-")
         \/ Contains(Upper(bug_value), "DEF-")    -> "General"
      [] OTHER                                    -> NoneValue

_extract_bug_type(bug_value) ==
    CASE bug_value = ""                           -> NoneValue
      [] StartsWith(Upper(bug_value), "AL-")      -> "Alteon"
      [] StartsWith(Upper(bug_value), "CYCON-")   -> "CyberController"
      [] StartsWith(Upper(bug_value), "DP-")      -> "DefensePro"
      [] \/ Contains(Upper(bug_value), "BUG-")
         \/ Contains(Upper(bug_value), "DEF-")    -> "General"
      [] OTHER                                    -> "Other"

\* row.get(self.column_mapping.get(key, ''), 'N/A')
DetailCell(row, mapping, key) ==
    IF key \in DOMAIN mapping THEN row[mapping[key]]
    ELSE IF "" \in DOMAIN row THEN row[""] ELSE "N/A"

_get_bug_analysis(data, mapping) ==
    IF "experienced_bug" \notin DOMAIN mapping
    THEN [available |-> FALSE, bug_vs_non_bug |-> << >>, bug_types |-> << >>,
          bug_severity |-> << >>, bug_cases_details |-> << >>,
          reason |-> "No experienced bug column found"]
    ELSE LET bug_col  == mapping["experienced_bug"]
             bug_rows == SelectSeq(data, LAMBDA row : _is_bug_case(CleanCell(row, bug_col)))
             bug_cases == Len(bug_rows)
             non_bug_cases == Len(data) - bug_cases
             TypeOf(row) == _extract_bug_type(CleanCell(row, bug_col))
             types == {TypeOf(bug_rows[i]) : i \in DOMAIN bug_rows} \ {NoneValue}
         IN  [available |-> TRUE,
              bug_vs_non_bug |-> ("Bug Cases" :> bug_cases) @@ ("Non-Bug Cases" :> non_bug_cases),
              bug_types |-> [t \in types |->
                  Cardinality({i \in DOMAIN bug_rows : TypeOf(bug_rows[i]) = t})],
              bug_severity |->
                  IF "severity" \in DOMAIN mapping
                  THEN value_counts(bug_rows, mapping["severity"])
                  ELSE << >>,
              bug_cases_details |->
                  [i \in DOMAIN bug_rows |->
                      [case_number     |-> DetailCell(bug_rows[i], mapping, "reference"),
                       subject         |-> DetailCell(bug_rows[i], mapping, "subject"),
                       status          |-> DetailCell(bug_rows[i], mapping, "status"),
                       product         |-> DetailCell(bug_rows[i], mapping, "product_hierarchy"),
                       product_version |-> DetailCell(bug_rows[i], mapping, "product_version"),
                       bug_id          |-> CleanCell(bug_rows[i], bug_col)]],
              bug_percentage |->
                  IF bug_cases + non_bug_cases > 0
                  THEN RoundDiv(bug_cases * 1000, bug_cases + non_bug_cases)
                  ELSE 0]

_get_customer_analysis(data, mapping) ==
    LET base == [available |-> TRUE]
        with_customer ==
            IF "end_customer" \in DOMAIN mapping
            THEN DictSet(base, "customer_counts",
                         value_counts(data, mapping["end_customer"]))
            ELSE base
    IN  IF "full_name" \in DOMAIN mapping
        THEN DictSet(with_customer, "engineer_counts",
                     value_counts(data, mapping["full_name"]))
        ELSE with_customer

_get_internal_external_analysis(data, mapping) ==
    IF "internal_case" \notin DOMAIN mapping
    THEN [available |-> FALSE, reason |-> "No internal case column found"]
    ELSE [available |-> TRUE, breakdown |-> value_counts(data, mapping["internal_case"])]

\* the queue analysis with the reason of its unavailable record forgotten
_get_queue_analysis_no_reason(data, mapping) ==
    IF "queue" \notin DOMAIN mapping
    THEN [available |-> FALSE]
    ELSE [available |-> TRUE, queue_counts |-> value_counts(data, mapping["queue"])]

_get_queue_analysis(data, mapping) ==
    IF "queue" \notin DOMAIN mapping
    THEN [available |-> FALSE, reason |-> "No queue column found"]
    ELSE [available |-> TRUE, queue_counts |-> value_counts(data, mapping["queue"])]

_get_case_owner_assignment(data, mapping) ==
    IF "full_name" \notin DOMAIN mapping
    THEN [available |-> FALSE, reason |-> "No case owner/full name column found"]
    ELSE [available |-> TRUE,
          case_counts |-> value_counts(data, mapping["full_name"]),
          status_breakdown |->
              IF "status" \in DOMAIN mapping
              THEN NestedCounts(data, mapping["full_name"], mapping["status"])
              ELSE << >>]

_get_status_analysis(data, mapping) ==
    IF "status" \notin DOMAIN mapping
    THEN [available |-> FALSE, reason |-> "No status column found"]
    ELSE [available |-> TRUE, counts |-> value_counts(data, mapping["status"])]

\* a no-value test that knows the empty string only
_is_no_value_empty_only(value) == value = ""

_is_no_value(value) ==
    IF value = "" THEN TRUE
    ELSE Strip(Lower(value)) \in
             {"no value", "n/a", "na", "none", "null", "empty", "",
              "no data", "not available", "not applicable"}

\* the class the loop of _get_escalation_analysis puts a row in
EscalationClass(jira_value) ==
    CASE _is_no_value(jira_value)            -> "Not Escalated"
      [] Contains(Lower(jira_value), "topn") -> "Escalated TopN"
      [] OTHER                               -> "Escalated"

_get_escalation_analysis(data, mapping) ==
    IF "jira_case" \notin DOMAIN mapping
    THEN [available |-> FALSE, reason |-> "No Jira Case column found."]
    ELSE LET jira_col == mapping["jira_case"]
         IN  [available |-> TRUE,
              counts |-> [c \in {"Not Escalated", "Escalated", "Escalated TopN"} |->
                  Cardinality({i \in DOMAIN data :
                      EscalationClass(CleanCell(data[i], jira_col)) = c})]]

\* the engineer assignment guarded by the field of the case owner assignment
_get_engineer_assignment_by_full_name(data, mapping) ==
    IF "full_name" \notin DOMAIN mapping \/ "assigned_account" \notin DOMAIN mapping
    THEN [available |-> FALSE, reason |-> "No assigned account column found"]
    ELSE [available |-> TRUE,
          case_counts |-> value_counts(data, mapping["assigned_account"]),
          status_breakdown |-> << >>]

_get_engineer_assignment(data, mapping) ==
    IF "assigned_account" \notin DOMAIN mapping
    THEN [available |-> FALSE, reason |-> "No assigned account column found"]
    ELSE [available |-> TRUE,
          case_counts |-> value_counts(data, mapping["assigned_account"]),
          status_breakdown |->
              IF "status" \in DOMAIN mapping
              THEN NestedCounts(data, mapping["assigned_account"], mapping["status"])
              ELSE << >>]

\* a row's date in col as the loop of _get_response_time_analysis reads it:
\* both strings must be there before either is parsed
ParseColumn(row, col, other_col) ==
    IF Str(row[col]) # "" /\ Str(row[other_col]) # ""
       /\ Str(row[col]) # "nan" /\ Str(row[other_col]) # "nan"
    THEN parse_date_flexible(Str(row[col]))
    ELSE NoDate

\* the seconds of the rows kept by a loop that takes a response at the instant
\* of the creation too
ResponseSeconds_not_before(created, responded) ==
    LET RECURSIVE Collect(_)
        Collect(i) ==
            IF i > Len(created) THEN << >>
            ELSE (IF /\ created[i] # NoDate
                     /\ responded[i] # NoDate
                     /\ Timestamp(responded[i]) >= Timestamp(created[i])
                  THEN <<Timestamp(responded[i]) - Timestamp(created[i])>>
                  ELSE << >>) \o Collect(i + 1)
    IN  Collect(1)

\* the seconds between creation and response of the rows the loop keeps: both
\* dates parsed and the response strictly after the creation
ResponseSeconds(created, responded) ==
    LET RECURSIVE Collect(_)
        Collect(i) ==
            IF i > Len(created) THEN << >>
            ELSE (IF /\ created[i] # NoDate
                     /\ responded[i] # NoDate
                     /\ Timestamp(responded[i]) > Timestamp(created[i])
                  THEN <<Timestamp(responded[i]) - Timestamp(created[i])>>
                  ELSE << >>) \o Collect(i + 1)
    IN  Collect(1)

\* response_time_hours is seconds / 3600; the averages are rounded to 1 decimal
ResponseRecord(seconds) ==
    IF seconds # << >>
    THEN [available |-> TRUE,
          avg_response_hours |-> RoundDiv(SumSeq(seconds) * 10, 3600 * Len(seconds)),
          avg_response_days  |-> RoundDiv(SumSeq(seconds) * 10, 86400 * Len(seconds)),
          total_cases_with_response |-> Len(seconds)]
    ELSE [available |-> FALSE, reason |-> "No valid response time data found"]

_get_response_time_analysis(data, mapping) ==
    IF "date_created" \notin DOMAIN mapping \/ "date_responded" \notin DOMAIN mapping
    THEN [available |-> FALSE,
          reason |-> "Missing date columns for response time analysis"]
    ELSE ResponseRecord(ResponseSeconds(
             [i \in DOMAIN data |->
                 ParseColumn(data[i], mapping["date_created"], mapping["date_responded"])],
             [i \in DOMAIN data |->
                 ParseColumn(data[i], mapping["date_responded"], mapping["date_created"])]))

\* the counting loop shared by _get_category_analysis and _get_resolution_analysis
ValidCounts(data, col) ==
    CountBy(SelectSeq(data, LAMBDA row : CleanCell(row, col) # "N/A"), col)

_get_category_analysis(data, mapping) ==
    IF "category" \notin DOMAIN mapping
    THEN [available |-> FALSE, reason |-> "No Category column found"]
    ELSE LET category_counts == ValidCounts(data, mapping["category"])
         IN  IF DOMAIN category_counts = {}
             THEN [available |-> FALSE, reason |-> "No valid category data found"]
             ELSE [available |-> TRUE, counts |-> category_counts]

_get_resolution_analysis(data, mapping) ==
    IF "resolution_code_1" \notin DOMAIN mapping
    THEN [available |-> FALSE, reason |-> "No Resolution Code 1 column found"]
    ELSE LET resolution_counts == ValidCounts(data, mapping["resolution_code_1"])
         IN  IF DOMAIN resolution_counts = {}
             THEN [available |-> FALSE, reason |-> "No valid resolution data found"]
             ELSE [available |-> TRUE, counts |-> resolution_counts]

\* the 15 analyses of process_executive_analytics, in the order it runs them
analysis_names == <<"summary", "monthly_trends", "severity_analysis",
                    "product_analysis", "bug_analysis", "customer_analysis",
                    "internal_vs_external", "queue_analysis", "engineer_assignment",
                    "case_owner_assignment", "status_analysis", "escalation",
                    "category_analysis", "resolution_analysis", "response_times">>

\* The exceptions the analyses can raise on a table of text cells: KeyError for
\* a mapped column that the table does not hold (self.data[col], row[col]), and
\* ZeroDivisionError in the percentages of _get_severity_analysis, which divides
\* by total once for every counted value.  The other divisions are guarded in
\* the code (max(..., 1), 'if response_times', 'if not resolution_times',
\* the conditional of bug_percentage).
AnalyticsError(data, columns, mapping) ==
    CASE \E k \in DOMAIN mapping : mapping[k] \notin Range(columns) -> "KeyError"
      [] /\ "severity" \in DOMAIN mapping
         /\ DOMAIN value_counts(data, mapping["severity"]) # {}
         /\ SumValues(value_counts(data, mapping["severity"])) = 0 -> "ZeroDivisionError"
      [] OTHER -> NoneValue

\* the bundle with one analysis left out
process_executive_analytics_without_escalation(data, mapping) ==
    [summary               |-> _get_summary_metrics(data, mapping),
     monthly_trends        |-> _get_monthly_trends(data, mapping),
     severity_analysis     |-> _get_severity_analysis(data, mapping),
     product_analysis      |-> _get_product_analysis(data, mapping),
     bug_analysis          |-> _get_bug_analysis(data, mapping),
     customer_analysis     |-> _get_customer_analysis(data, mapping),
     internal_vs_external  |-> _get_internal_external_analysis(data, mapping),
     queue_analysis        |-> _get_queue_analysis(data, mapping),
     engineer_assignment   |-> _get_engineer_assignment(data, mapping),
     case_owner_assignment |-> _get_case_owner_assignment(data, mapping),
     status_analysis       |-> _get_status_analysis(data, mapping),
     category_analysis     |-> _get_category_analysis(data, mapping),
     resolution_analysis   |-> _get_resolution_analysis(data, mapping),
     response_times        |-> _get_response_time_analysis(data, mapping)]

process_executive_analytics(data, mapping) ==
    [summary               |-> _get_summary_metrics(data, mapping),
     monthly_trends        |-> _get_monthly_trends(data, mapping),
     severity_analysis     |-> _get_severity_analysis(data, mapping),
     product_analysis      |-> _get_product_analysis(data, mapping),
     bug_analysis          |-> _get_bug_analysis(data, mapping),
     customer_analysis     |-> _get_customer_analysis(data, mapping),
     internal_vs_external  |-> _get_internal_external_analysis(data, mapping),
     queue_analysis        |-> _get_queue_analysis(data, mapping),
     engineer_assignment   |-> _get_engineer_assignment(data, mapping),
     case_owner_assignment |-> _get_case_owner_assignment(data, mapping),
     status_analysis       |-> _get_status_analysis(data, mapping),
     escalation            |-> _get_escalation_analysis(data, mapping),
     category_analysis     |-> _get_category_analysis(data, mapping),
     resolution_analysis   |-> _get_resolution_analysis(data, mapping),
     response_times        |-> _get_response_time_analysis(data, mapping)]


(* ------------------- tac_utils: encoding detection ---------------------- *)

\* What a file's bytes are, as far as the codecs below tell files apart:
\*   "ascii"  only bytes below 0x80
\*   "utf8"   well-formed multi-byte UTF-8 sequences (as of an e-acute, C3 A9)
\*   "latin"  bytes from 0x80 on that are no UTF-8 and that cp1252 defines (E9)
\*   "c1"     bytes that are no UTF-8 and that cp1252 leaves undefined (81)
ByteKinds == {"ascii", "utf8", "latin", "c1"}

\* the codec Python finds for an encoding name, NoneValue when it has none
\* (open() then raises LookupError)
CodecOf(name) ==
    CASE Lower(name) \in {"ascii", "us-ascii"}            -> "ascii"
      [] Lower(name) \in {"utf-8", "utf8"}                -> "utf-8"
      [] Lower(name) = "utf-8-sig"                        -> "utf-8-sig"
      [] Lower(name) \in {"cp1252", "windows-1252"}       -> "cp1252"
      [] Lower(name) \in {"iso-8859-1", "latin-1"}        -> "iso-8859-1"
      [] OTHER                                            -> NoneValue

\* whether a codec decodes every byte of a file
Decodes(codec, bytes) ==
    CASE codec = "ascii"                  -> bytes = "ascii"
      [] codec \in {"utf-8", "utf-8-sig"} -> bytes \in {"ascii", "utf8"}
      [] codec = "cp1252"                 -> bytes # "c1"
      [] codec = "iso-8859-1"             -> TRUE
      [] OTHER                            -> FALSE

\* open(file_path, 'r', encoding=enc) followed by a read of the whole file
OpenRead(enc, bytes) ==
    IF CodecOf(enc) = NoneValue THEN "LookupError"
    ELSE IF Decodes(CodecOf(enc), bytes) THEN "ok"
    ELSE "UnicodeDecodeError"

encodings_to_try == <<"utf-8", "utf-8-sig", "cp1252", "iso-8859-1", "ascii">>

\* the loop over encodings_to_try, and the final fallback after it
FallbackEncoding(bytes) ==
    LET hit == FirstHit(encodings_to_try,
                        [i \in DOMAIN encodings_to_try |->
                            OpenRead(encodings_to_try[i], bytes) = "ok"])
    IN  IF hit # NoneValue THEN hit ELSE "utf-8"

\* detect_file_encoding of a readable file, given what chardet.detect reports.
\* The inner try catches UnicodeDecodeError only: any other exception of the
\* validating read ends in the outer handler, which returns 'utf-8'.
detect_file_encoding(bytes, detected_encoding) ==
    IF detected_encoding = NoneValue THEN FallbackEncoding(bytes)
    ELSE CASE OpenRead(detected_encoding, bytes) = "ok" -> detected_encoding
           [] OpenRead(detected_encoding, bytes) = "UnicodeDecodeError" ->
                  FallbackEncoding(bytes)
           [] OTHER -> "utf-8"

(* ---------------- TACDataProcessor: header detection -------------------- *)

title_patterns == {"open cases all", "all cases", "case report", "tac cases"}

header_keywords == <<"reference", "subject", "status", "date">>

\* any(header in line.lower() for header in [...])
HasHeaderKeyword(line) ==
    \E h \in DOMAIN header_keywords : Contains(Lower(line), header_keywords[h])

\* lines[i].strip().strip('"')
StrippedLine(line) == StripChars(Strip(line), {"\""})

\* first_line.split(',')[0].strip().lower()
FirstPart(first_line) == Lower(Strip(SplitFirst(first_line, ",")))

\* the title check without its test of first_part: an empty leading field
\* passes for a title too
LooksLikeTitle_any_first_part(first_line, second_line) ==
    \/ FirstPart(first_line) \in title_patterns
    \/ /\ ~HasHeaderKeyword(first_line)
       /\ HasHeaderKeyword(second_line)

\* whether the first line is taken for a title, given the two stripped lines
LooksLikeTitle(first_line, second_line) ==
    \/ FirstPart(first_line) \in title_patterns
    \/ /\ FirstPart(first_line) # ""
       /\ ~HasHeaderKeyword(first_line)
       /\ HasHeaderKeyword(second_line)

\* the skip_rows that _load_csv_file computes from the lines read
DetectSkipRows(lines) ==
    IF Len(lines) > 1
    THEN IF LooksLikeTitle(StrippedLine(lines[1]), StrippedLine(lines[2]))
         THEN 1 ELSE 0
    ELSE 0

\* the encoding pd.read_csv ends up reading with: the detected one, then
\* 'utf-8', then 'utf-8' with encoding_errors='replace'
ReadCsvEncoding(enc, bytes) ==
    IF OpenRead(enc, bytes) = "ok" THEN [encoding |-> enc, errors |-> "strict"]
    ELSE IF OpenRead("utf-8", bytes) = "ok"
         THEN [encoding |-> "utf-8", errors |-> "strict"]
         ELSE [encoding |-> "utf-8", errors |-> "replace"]

(* -------------------------- TACAnalyzer --------------------------------- *)

supported_extensions == <<".csv", ".xlsx", ".xls">>

\* The stems of the entries of a directory, in the order of their strings: an
\* entry is named <stem><ext>, its field stem is the place of the stem here.
PathStems == <<"Q1 cases", "Q1_cases", "Q2", "Q3", "_Q3_">>

\* the extensions of entries, in the order of their strings
PathExtensions == <<".csv", ".txt", ".xls", ".xlsx">>

\* file_path.name
PathName(file_path) == PathStems[file_path.stem] \o file_path.ext

\* path f < path g: no stem stands at the start of another stem, so the paths
\* are ordered by their stems, and those of one stem by their extensions
PathBefore(f, g) ==
    \/ f.stem < g.stem
    \/ /\ f.stem = g.stem
       /\ \E i, j \in DOMAIN PathExtensions :
              i < j /\ PathExtensions[i] = f.ext /\ PathExtensions[j] = g.ext

\* list.sort() of a set of paths of one directory
RECURSIVE SortPaths(_)
SortPaths(files) ==
    IF files = {} THEN << >>
    ELSE LET first == CHOOSE f \in files : \A g \in files \ {f} : PathBefore(f, g)
         IN  <<first>> \o SortPaths(files \ {first})

\* the entries of dir with extension ext, sorted
WithExtension(dir, ext) == SortPaths({f \in dir : f.ext = ext})

\* the discovery without its sort: the entries in the order of the loop over
\* supported_extensions
discover_input_files_unsorted(dir) ==
    WithExtension(dir, supported_extensions[1])
        \o WithExtension(dir, supported_extensions[2])
        \o WithExtension(dir, supported_extensions[3])

\* discover_input_files: the entries with a supported extension, without
\* duplicates, sorted
discover_input_files(dir) ==
    SortPaths({f \in dir : \E e \in DOMAIN supported_extensions :
                               f.ext = supported_extensions[e]})

\* OUTPUT_FORMATS of tac_config
OUTPUT_FORMATS == <<"html">>

\* formats of main, from args.format
FormatsOf(format) == IF format = "both" THEN OUTPUT_FORMATS ELSE <<format>>

\* Path(name).stem: the name without its last suffix
PathStem(name) ==
    LET dots == {i \in 1..Len(name) : CharAt(name, i) = "."}
        last == CHOOSE i \in dots : \A j \in dots : j <= i
    IN  IF dots # {} /\ last > 1 /\ last < Len(name)
        THEN SubSeq(name, 1, last - 1)
        ELSE name

\* re.sub(r'[<>:"/\\|?*]', '_', filename)
RECURSIVE ReplaceInvalidChars(_)
ReplaceInvalidChars(filename) ==
    IF filename = "" THEN ""
    ELSE (IF Head(filename) \in {"<", ">", ":", "\"", "/", "\\", "|", "?", "*"}
          THEN "_" ELSE Head(filename))
             \o ReplaceInvalidChars(Tail(filename))

\* re.sub(r'\s+', '_', filename)
RECURSIVE ReplaceWhitespace(_)
ReplaceWhitespace(filename) ==
    IF filename = "" THEN ""
    ELSE IF Head(filename) \in WhitespaceChars
         THEN "_" \o ReplaceWhitespace(LStripChars(Tail(filename), WhitespaceChars))
         ELSE Head(filename) \o ReplaceWhitespace(Tail(filename))

\* the length clean_filename cuts a name to
CleanFilenameLimit == 100

clean_filename(filename) ==
    LET cleaned == StripChars(ReplaceWhitespace(ReplaceInvalidChars(filename)), {".", "_"})
    IN  IF Len(cleaned) > CleanFilenameLimit
        THEN SubSeq(cleaned, 1, CleanFilenameLimit)
        ELSE cleaned

\* generate_reports when no step of it raises: the path written for every
\* format asked for, inside output_dir.  For 'pdf' it is the path
\* _generate_pdf_report returns: the PDF, or the text file of instructions it
\* writes instead when Playwright cannot be imported.
generate_reports(input_filename, format_list, has_playwright) ==
    LET base_name == clean_filename(PathStem(input_filename))
    IN  [fmt \in {"html", "pdf"} \cap Range(format_list) |->
            CASE fmt = "html"   -> base_name \o "_executive_report.html"
              [] has_playwright -> base_name \o "_executive_report.pdf"
              [] OTHER          -> base_name \o "_pdf_instructions.txt"]

\* What becomes of a file in process_single_file is decided by the file:
\*   "invalid"          validate_input_file returns False
\*   "load_error"       load_and_analyze raises
\*   "analytics_error"  process_executive_analytics raises
\*   "report_error"     generate_reports raises
\*   "ok"               every stage returns
Fates == {"ok", "invalid", "load_error", "analytics_error", "report_error"}

\* The try block of process_single_file: the record it returns, or
\* [raised |-> message] for the exception a stage raises.  The
\* processing_time of the records, a clock reading, is left out.
TryProcess(file_path, format_list, has_playwright) ==
    CASE file_path.fate = "invalid" ->
             [success |-> FALSE, file_path |-> file_path,
              error |-> "File validation failed"]
      [] file_path.fate \in {"load_error", "analytics_error", "report_error"} ->
             [raised |-> file_path.fate]
      [] OTHER ->
             [success |-> TRUE, file_path |-> file_path,
              generated_files |->
                  generate_reports(PathName(file_path), format_list, has_playwright),
              analytics |-> "analytics",
              file_analysis |-> "file_analysis"]

\* the handler without its except clause: what the try block raises reaches
\* the caller
process_single_file_uncaught(file_path, format_list, has_playwright) ==
    TryProcess(file_path, format_list, has_playwright)

\* process_single_file: 'except Exception as e' turns what the try block
\* raises into a failure record with str(e)
process_single_file(file_path, format_list, has_playwright) ==
    LET tried == TryProcess(file_path, format_list, has_playwright)
    IN  IF "raised" \in DOMAIN tried
        THEN [success |-> FALSE, file_path |-> file_path, error |-> tried.raised]
        ELSE tried

\* the record process_all_files returns after its loop
BatchResult(input_files, results, successful_files, failed_files) ==
    [success |-> failed_files = 0,
     total_files |-> Len(input_files),
     processed_files |-> successful_files,
     failed_files |-> failed_files,
     results |-> results]

\* the record process_all_files returns when no file is discovered
EmptyBatchResult ==
    [success |-> FALSE, total_files |-> 0, processed_files |-> 0,
     failed_files |-> 0, results |-> << >>]

(* ------------------------------- state ---------------------------------- *)

VARIABLES
    \* one TACDataProcessor
    raw_columns,     \* the header of the table pandas reads from the file
    raw_rows,        \* the rows pandas reads from the file
    columns,         \* self.data.columns
    data,            \* self.data, its rows
    column_mapping,  \* self.column_mapping
    file_analysis,   \* what load_and_analyze returns
    analytics,       \* what process_executive_analytics returns
    pc,              \* where the processor is
    error,           \* the exception raised, NoneValue while there is none
    \* one CSV file and its load
    file_lines,      \* the lines of the file, without their line ends
    file_bytes,      \* what bytes the file holds, one of ByteKinds
    chardet_result,  \* the encoding chardet.detect reports, NoneValue for None
    encoding,        \* self.encoding
    lines,           \* lines of _load_csv_file
    skip_rows,       \* skip_rows of _load_csv_file
    encoding_errors, \* how pd.read_csv treated undecodable bytes
    load_error,      \* the exception _load_csv_file raises, NoneValue while none
    load_pc,         \* where _load_csv_file is
    \* one TACAnalyzer batch
    input_dir,       \* the entries of the input directory
    args_format,     \* args.format of main
    playwright,      \* whether Playwright can be imported
    formats,         \* formats of main, passed to process_all_files
    input_files,     \* input_files of process_all_files
    results,         \* results of process_all_files
    successful_files,
    failed_files,
    batch_result,    \* what process_all_files returns
    batch_pc,        \* where process_all_files is
    \* one cell value and the functions called on it
    text_in,         \* the value a caller holds
    calls            \* the calls made so far: function, argument, value returned

proc_vars == <<raw_columns, raw_rows, columns, data, column_mapping,
               file_analysis, analytics, pc, error>>

load_vars == <<file_lines, file_bytes, chardet_result, encoding, lines,
               skip_rows, encoding_errors, load_error, load_pc>>

batch_vars == <<input_dir, args_format, playwright, formats, input_files,
                results, successful_files, failed_files, batch_result, batch_pc>>

text_vars == <<text_in, calls>>

vars == <<proc_vars, load_vars, batch_vars, text_vars>>

(* --------------------- TACDataProcessor: operations --------------------- *)

\* __init__: nothing loaded, nothing mapped
ProcessorInit ==
    /\ columns = << >>
    /\ data = << >>
    /\ column_mapping = << >>
    /\ file_analysis = NoneValue
    /\ analytics = NoneValue
    /\ pc = "init"
    /\ error = NoneValue

\* no table is given to the processor
NoTable == raw_columns = << >> /\ raw_rows = << >>

\* _load_csv_file before it has run
LoaderInit ==
    /\ encoding = NoneValue
    /\ lines = << >>
    /\ skip_rows = 0
    /\ encoding_errors = "strict"
    /\ load_error = NoneValue
    /\ load_pc = "start"

\* no file is given to the loader
NoFile == file_lines = << >> /\ file_bytes = "ascii" /\ chardet_result = NoneValue

\* no function has been called on the value
CallsInit == calls = << >>

\* no value is given
NoText == text_in = ""

\* no directory is given to the analyzer; the command line is the default
NoDirectory == input_dir = {} /\ args_format = "both" /\ playwright = TRUE

\* process_all_files before it has run, with the formats main passes
BatchInit ==
    /\ formats = FormatsOf(args_format)
    /\ input_files = << >>
    /\ results = << >>
    /\ successful_files = 0
    /\ failed_files = 0
    /\ batch_result = NoneValue
    /\ batch_pc = "start"

\* the file process_single_file works on, if there is one, cannot be read as
\* a table
LoadRaises == input_files # << >> /\ input_files[1].fate = "load_error"

\* a validation whose verdict is not looked at: the processor is constructed
\* for every file
ValidateInputFile_verdict_ignored ==
    /\ pc = "start"
    /\ pc' = "init"
    /\ UNCHANGED <<raw_columns, raw_rows, columns, data, column_mapping,
                   file_analysis, analytics, error>>
    /\ UNCHANGED <<load_vars, batch_vars, text_vars>>

\* validate_input_file, and in process_single_file the early return of an
\* invalid file or the construction of the processor of a valid one
ValidateInputFile ==
    /\ pc = "start"
    /\ IF input_files[1].fate = "invalid"
       THEN /\ results' = <<[success |-> FALSE, file_path |-> input_files[1],
                             error |-> "File validation failed"]>>
            /\ pc' = "returned"
       ELSE /\ results' = results
            /\ pc' = "init"
    /\ UNCHANGED <<raw_columns, raw_rows, columns, data, column_mapping,
                   file_analysis, analytics, error>>
    /\ UNCHANGED <<input_dir, args_format, playwright, formats, input_files,
                   successful_files, failed_files, batch_result, batch_pc>>
    /\ UNCHANGED <<load_vars, text_vars>>

\* load_and_analyze on a file that cannot be read: _load_csv_file or
\* _load_excel_file raises, load_and_analyze logs and raises again
LoadFileRaises ==
    /\ pc = "init"
    /\ LoadRaises
    /\ pc' = "raised"
    /\ error' = "load_error"
    /\ UNCHANGED <<raw_columns, raw_rows, columns, data, column_mapping,
                   file_analysis, analytics>>
    /\ UNCHANGED <<load_vars, batch_vars, text_vars>>

\* _load_csv_file / _load_excel_file, from the table read on: the footer rows
\* are removed
LoadFile ==
    /\ pc = "init"
    /\ ~LoadRaises
    /\ columns' = raw_columns
    /\ data' = RemoveFooterRows(raw_columns, raw_rows)
    /\ pc' = "loaded"
    /\ UNCHANGED <<raw_columns, raw_rows, column_mapping, file_analysis, analytics, error>>
    /\ UNCHANGED <<load_vars, batch_vars, text_vars>>

CreateColumnMapping ==
    /\ pc = "loaded"
    /\ column_mapping' = _create_column_mapping(column_mapping, columns)
    /\ pc' = "mapped"
    /\ UNCHANGED <<raw_columns, raw_rows, columns, data, file_analysis, analytics, error>>
    /\ UNCHANGED <<load_vars, batch_vars, text_vars>>

ValidateColumns ==
    /\ pc = "mapped"
    /\ column_mapping' = _validate_columns(column_mapping, columns)
    /\ pc' = "validated"
    /\ UNCHANGED <<raw_columns, raw_rows, columns, data, file_analysis, analytics, error>>
    /\ UNCHANGED <<load_vars, batch_vars, text_vars>>

\* the rest of load_and_analyze: _clean_data, then the analysis it returns
CleanData ==
    /\ pc = "validated"
    /\ data' = _clean_data(data, columns, column_mapping)
    /\ file_analysis' =
           [total_cases     |-> Len(data),
            columns_found   |-> Len(columns),
            date_range      |-> _get_date_range(data', column_mapping),
            column_mapping  |-> column_mapping,
            missing_columns |-> _get_missing_columns(column_mapping)]
    /\ pc' = "analyzed"
    /\ UNCHANGED <<raw_columns, raw_rows, columns, column_mapping, analytics, error>>
    /\ UNCHANGED <<load_vars, batch_vars, text_vars>>

ProcessExecutiveAnalytics ==
    /\ pc = "analyzed"
    /\ IF AnalyticsError(data, columns, column_mapping) = NoneValue
       THEN /\ analytics' = process_executive_analytics(data, column_mapping)
            /\ pc' = "done"
            /\ error' = error
       ELSE /\ analytics' = analytics
            /\ pc' = "raised"
            /\ error' = AnalyticsError(data, columns, column_mapping)
    /\ UNCHANGED <<raw_columns, raw_rows, columns, data, column_mapping, file_analysis>>
    /\ UNCHANGED <<load_vars, batch_vars, text_vars>>

\* the report stage of process_single_file: generate_reports raises, or the
\* success record is returned
GenerateReports ==
    /\ pc = "done"
    /\ input_files # << >>
    /\ IF input_files[1].fate = "report_error"
       THEN /\ pc' = "raised"
            /\ error' = "report_error"
            /\ results' = results
       ELSE /\ pc' = "returned"
            /\ error' = error
            /\ results' =
                   <<[success |-> TRUE, file_path |-> input_files[1],
                      generated_files |->
                          generate_reports(PathName(input_files[1]), formats, playwright),
                      analytics |-> analytics, file_analysis |-> file_analysis]>>
    /\ UNCHANGED <<raw_columns, raw_rows, columns, data, column_mapping,
                   file_analysis, analytics>>
    /\ UNCHANGED <<input_dir, args_format, playwright, formats, input_files,
                   successful_files, failed_files, batch_result, batch_pc>>
    /\ UNCHANGED <<load_vars, text_vars>>

\* 'except Exception as e' of process_single_file: the failure record
ReturnFailure ==
    /\ pc = "raised"
    /\ input_files # << >>
    /\ results' = <<[success |-> FALSE, file_path |-> input_files[1], error |-> error]>>
    /\ pc' = "returned"
    /\ UNCHANGED <<raw_columns, raw_rows, columns, data, column_mapping,
                   file_analysis, analytics, error>>
    /\ UNCHANGED <<input_dir, args_format, playwright, formats, input_files,
                   successful_files, failed_files, batch_result, batch_pc>>
    /\ UNCHANGED <<load_vars, text_vars>>

NextProc ==
    \/ LoadFile
    \/ CreateColumnMapping
    \/ ValidateColumns
    \/ CleanData
    \/ ProcessExecutiveAnalytics

(* ------------------ the column mapper on drawn headers ------------------ *)

\* the column names the headers are drawn from: exact synonyms, synonyms in
\* another case or with spaces around, names only the fallback accepts, names
\* that are a synonym of one field and hold a fallback keyword of another
MapColumnUniverse ==
    {"Reference #", " status ", "Case Status", "Date Created",
     "Internal Case", "Date Last Responded", "Ticket Ref", "SEVERITY", "Notes",
     "STATUS"}

\* the sequences of distinct elements of S of length at most n: pandas keeps
\* the column names of a table distinct
RECURSIVE DistinctSeqs(_, _)
DistinctSeqs(S, n) ==
    IF n = 0 THEN {<< >>}
    ELSE LET shorter == DistinctSeqs(S, n - 1)
         IN  shorter \cup UNION {{Append(q, x) : x \in S \ Range(q)} : q \in shorter}

InitMap ==
    /\ raw_columns \in DistinctSeqs(MapColumnUniverse, MaxMapCols)
    /\ raw_rows \in {<< >>, <<[c \in Range(raw_columns) |-> "x"]>>}
    /\ ProcessorInit
    /\ NoFile /\ LoaderInit
    /\ NoDirectory /\ BatchInit
    /\ NoText /\ CallsInit

SpecMap == InitMap /\ [][NextProc]_vars

(* ---------------- the analytics engine on drawn tables ------------------ *)

\* the header the tables are drawn from: one column for each field an
\* analysis requires, and one that no field maps
AnalyticsHeader ==
    <<"Reference #", "Status", "Date Created", "Queue", "Internal Case",
      "Full Name", "Date Last Responded", "Assigned Account",
      "Product Hierarchy", "Jira Case", "Severity", "Experienced Bug",
      "Category", "Resolution Code 1", "Notes">>

\* a case with every cell filled
FullRow ==
    [c \in Range(AnalyticsHeader) |->
        CASE c = "Reference #"         -> "1001"
          [] c = "Status"              -> "Closed"
          [] c = "Date Created"        -> "01/15/2024 9:30 AM"
          [] c = "Queue"               -> "TAC"
          [] c = "Internal Case"       -> "No"
          [] c = "Full Name"           -> "Dana Levi"
          [] c = "Date Last Responded" -> "2024-01-16 10:00:00"
          [] c = "Assigned Account"    -> "Acme"
          [] c = "Product Hierarchy"   -> "Alteon"
          [] c = "Jira Case"           -> "JIRA-100 TopN"
          [] c = "Severity"            -> "2 - high"
          [] c = "Experienced Bug"     -> "AL-123"
          [] c = "Category"            -> "Hardware"
          [] c = "Resolution Code 1"   -> "Fixed"
          [] OTHER                     -> "call back"]

\* a row of null-like cells, as an exporter's trailing count line is read
SparseRow ==
    [c \in Range(AnalyticsHeader) |->
        CASE c = "Reference #"         -> "Record Count: 1"
          [] c = "Date Created"        -> "2024-03-05"
          [] c = "Date Last Responded" -> "03/01/2024"
          [] c = "Jira Case"           -> "No Value"
          [] c = "Category"            -> "n/a"
          [] c = "Resolution Code 1"   -> " "
          [] OTHER                     -> NaNCell]

\* the columns of AnalyticsHeader at the positions in keep, in order
RECURSIVE HeaderAt(_, _)
HeaderAt(keep, i) ==
    IF i > Len(AnalyticsHeader) THEN << >>
    ELSE (IF i \in keep THEN <<AnalyticsHeader[i]>> ELSE << >>) \o HeaderAt(keep, i + 1)

\* the sequences over S of length at most n
RECURSIVE SeqsUpTo(_, _)
SeqsUpTo(S, n) ==
    IF n = 0 THEN {<< >>}
    ELSE LET shorter == SeqsUpTo(S, n - 1)
         IN  shorter \cup {Append(q, x) : q \in shorter, x \in S}

\* a row of the header, cut down to the columns of the table
Project(row, cols) == [c \in Range(cols) |-> row[c]]

InitAnalytics ==
    /\ \E keep \in SUBSET DOMAIN AnalyticsHeader :
          /\ keep # {}
          /\ Cardinality(keep) <= MaxCols
          /\ raw_columns = HeaderAt(keep, 1)
    /\ \E rows \in SeqsUpTo({FullRow, SparseRow}, MaxRows) :
          raw_rows = [i \in DOMAIN rows |-> Project(rows[i], raw_columns)]
    /\ ProcessorInit
    /\ NoFile /\ LoaderInit
    /\ NoDirectory /\ BatchInit
    /\ NoText /\ CallsInit

SpecAnalytics == InitAnalytics /\ [][NextProc]_vars

(* ----------------------- the CSV loader on drawn files ------------------ *)

\* detect_file_encoding(self.file_path)
DetectFileEncoding ==
    /\ load_pc = "start"
    /\ encoding' = detect_file_encoding(file_bytes, chardet_result)
    /\ load_pc' = "detected"
    /\ UNCHANGED <<file_lines, file_bytes, chardet_result, lines, skip_rows,
                   encoding_errors, load_error>>
    /\ UNCHANGED <<proc_vars, batch_vars, text_vars>>

\* open(self.file_path, 'r', encoding=self.encoding) and f.readlines(): the
\* UnicodeDecodeError of a file the encoding does not decode leaves
\* _load_csv_file through its outer handler, which raises it again
ReadLines ==
    /\ load_pc = "detected"
    /\ IF OpenRead(encoding, file_bytes) = "ok"
       THEN /\ lines' = [i \in DOMAIN file_lines |-> file_lines[i] \o "\n"]
            /\ load_error' = load_error
            /\ load_pc' = "read"
       ELSE /\ lines' = lines
            /\ load_error' = OpenRead(encoding, file_bytes)
            /\ load_pc' = "failed"
    /\ UNCHANGED <<file_lines, file_bytes, chardet_result, encoding, skip_rows,
                   encoding_errors>>
    /\ UNCHANGED <<proc_vars, batch_vars, text_vars>>

\* the title check on the first two lines
DetectHeader ==
    /\ load_pc = "read"
    /\ skip_rows' = DetectSkipRows(lines)
    /\ load_pc' = "header"
    /\ UNCHANGED <<file_lines, file_bytes, chardet_result, encoding, lines,
                   encoding_errors, load_error>>
    /\ UNCHANGED <<proc_vars, batch_vars, text_vars>>

\* pd.read_csv with its two fallbacks; of a file without a line to take the
\* columns from it raises EmptyDataError, which no handler of the loader
\* catches
ReadCsv ==
    /\ load_pc = "header"
    /\ IF Len(lines) > skip_rows
       THEN /\ encoding' = ReadCsvEncoding(encoding, file_bytes).encoding
            /\ encoding_errors' = ReadCsvEncoding(encoding, file_bytes).errors
            /\ load_error' = load_error
            /\ load_pc' = "loaded"
       ELSE /\ UNCHANGED <<encoding, encoding_errors>>
            /\ load_error' = "EmptyDataError"
            /\ load_pc' = "failed"
    /\ UNCHANGED <<file_lines, file_bytes, chardet_result, lines, skip_rows>>
    /\ UNCHANGED <<proc_vars, batch_vars, text_vars>>

NextLoad ==
    \/ DetectFileEncoding
    \/ ReadLines
    \/ DetectHeader
    \/ ReadCsv

\* the lines the files are drawn from: a quoted title, a header, a title with
\* empty fields after it, a line that is neither, a header without any of the
\* keywords, a line whose leading field is empty, a case
LineUniverse ==
    {"\"Open Cases All\"", "Reference #,Status,Date Created", "ALL CASES,,",
     "Exported by TAC", "Case,Owner", ",,", "1001,Open,01/02/2024"}

\* the encodings chardet reports in the model: None, names of Python codecs
\* in chardet's spelling, and EUC-TW, which chardet knows and Python does not
ChardetResults ==
    {NoneValue, "ascii", "utf-8", "Windows-1252", "ISO-8859-1", "EUC-TW"}

InitLoad ==
    /\ file_lines \in SeqsUpTo(LineUniverse, MaxLines)
    \* a file without a line has no byte
    /\ file_bytes \in IF file_lines = << >> THEN {"ascii"} ELSE ByteKinds
    /\ chardet_result \in ChardetResults
    /\ LoaderInit
    /\ NoTable /\ ProcessorInit
    /\ NoDirectory /\ BatchInit
    /\ NoText /\ CallsInit

SpecLoad == InitLoad /\ [][NextLoad]_vars

(* ----------------------- the batch loop on drawn directories ------------ *)

\* process_all_files up to its loop: the discovery, and the early return of an
\* empty discovery
DiscoverInputFiles ==
    /\ batch_pc = "start"
    /\ input_files' = discover_input_files(input_dir)
    /\ IF discover_input_files(input_dir) = << >>
       THEN /\ batch_result' = EmptyBatchResult
            /\ batch_pc' = "returned"
       ELSE /\ batch_result' = batch_result
            /\ batch_pc' = "loop"
    /\ UNCHANGED <<input_dir, args_format, formats, playwright,
                   results, successful_files, failed_files>>
    /\ UNCHANGED <<proc_vars, load_vars, text_vars>>

\* the body of the loop, given what process_single_file did: the loop has no
\* handler, so an exception of process_single_file would leave
\* process_all_files
LoopBody(result) ==
    IF "raised" \in DOMAIN result
    THEN /\ batch_pc' = "raised"
         /\ UNCHANGED <<results, successful_files, failed_files>>
    ELSE /\ results' = Append(results, result)
         /\ successful_files' = successful_files + (IF result.success THEN 1 ELSE 0)
         /\ failed_files' = failed_files + (IF result.success THEN 0 ELSE 1)
         /\ batch_pc' = batch_pc

\* one iteration of the loop over input_files
ProcessNextFile ==
    /\ batch_pc = "loop"
    /\ Len(results) < Len(input_files)
    /\ LoopBody(process_single_file(input_files[Len(results) + 1], formats, playwright))
    /\ UNCHANGED <<input_dir, args_format, formats, playwright, input_files, batch_result>>
    /\ UNCHANGED <<proc_vars, load_vars, text_vars>>

\* the return after the loop
ReturnBatch ==
    /\ batch_pc = "loop"
    /\ Len(results) = Len(input_files)
    /\ batch_result' = BatchResult(input_files, results, successful_files, failed_files)
    /\ batch_pc' = "returned"
    /\ UNCHANGED <<input_dir, args_format, formats, playwright,
                   input_files, results, successful_files, failed_files>>
    /\ UNCHANGED <<proc_vars, load_vars, text_vars>>

NextBatch ==
    \/ DiscoverInputFiles
    \/ ProcessNextFile
    \/ ReturnBatch

\* the extensions of the entries drawn: two that are discovered, one that is not
DrawnExtensions == {".csv", ".xlsx", ".txt"}

\* the directories of at most MaxFiles entries
Directories ==
    UNION {{ {[stem |-> i, ext |-> shape[i].ext, fate |-> shape[i].fate] : i \in stems} :
               shape \in [stems -> [ext : DrawnExtensions, fate : Fates]]} :
           stems \in SUBSET (1..MaxFiles)}

InitBatch ==
    /\ input_dir \in Directories
    /\ args_format = "both" /\ playwright = TRUE
    /\ BatchInit
    /\ NoTable /\ ProcessorInit
    /\ NoFile /\ LoaderInit
    /\ NoText /\ CallsInit

SpecBatch == InitBatch /\ [][NextBatch]_vars

(* ---------------- the bug analysis on drawn bug rows -------------------- *)

\* the severity cells and the experienced-bug cells of the rows drawn
BugSeverityCells == {"2 - high", " Critical ", NaNCell}
BugValueCells == {"AL-1234", "DP-1 BUG-2", "xAL-5", "see BUG-77", "no value", NaNCell}

\* the tables drawn: with and without a severity column
InitBugs ==
    /\ raw_columns \in {<<"Reference #", "Severity", "Experienced Bug">>,
                        <<"Reference #", "Experienced Bug">>}
    /\ \E rows \in SeqsUpTo([severity : BugSeverityCells, bug : BugValueCells], MaxRows) :
          raw_rows = [i \in DOMAIN rows |->
                         [c \in Range(raw_columns) |->
                             CASE c = "Severity"        -> rows[i].severity
                               [] c = "Experienced Bug" -> rows[i].bug
                               [] OTHER                 -> "1001"]]
    /\ ProcessorInit
    /\ NoFile /\ LoaderInit
    /\ NoDirectory /\ BatchInit
    /\ NoText /\ CallsInit

SpecBugs == InitBugs /\ [][NextProc]_vars

(* ------------- the reports of a batch on drawn file names --------------- *)

\* the values of --format
FormatChoices == {"html", "pdf", "both"}

\* what becomes of the entries drawn here
ReportFates == {"ok", "report_error"}

\* the directories of at most MaxFiles entries, named by a stem of PathStems
\* and a supported extension: entries of one stem, entries whose stems differ
\* in a character clean_filename replaces
ReportDirectories ==
    {dir \in SUBSET [stem : 1..MaxFiles, ext : {".csv", ".xlsx"}, fate : ReportFates] :
        /\ Cardinality(dir) <= MaxFiles
        /\ \A f, g \in dir : (f.stem = g.stem /\ f.ext = g.ext) => f = g}

InitReports ==
    /\ input_dir \in ReportDirectories
    /\ args_format \in FormatChoices
    /\ playwright \in BOOLEAN
    /\ BatchInit
    /\ NoTable /\ ProcessorInit
    /\ NoFile /\ LoaderInit
    /\ NoText /\ CallsInit

SpecReports == InitReports /\ [][NextBatch]_vars

(* ------------- process_single_file, stage by stage, on one file --------- *)

\* the column names of the tables drawn: a name only the fallback accepts, a
\* synonym with spaces around, synonyms in another case
FileColumnUniverse == {"Ticket Ref", " status ", "SEVERITY", "Date Created"}

\* the rows of the tables drawn: none, a case with padded cells, such a case
\* before an exporter's total line
FileRows(header) ==
    {<< >>,
     <<[c \in Range(header) |-> " 2 - High "]>>,
     <<[c \in Range(header) |-> " 2 - High "], [c \in Range(header) |-> "Total"]>>}

\* what becomes of the file drawn
FileFates == {"ok", "invalid", "load_error", "report_error"}

\* process_single_file is entered for the one file of the batch
InitFile ==
    /\ \E fate \in FileFates :
          /\ input_dir = {[stem |-> 3, ext |-> ".csv", fate |-> fate]}
          /\ input_files = <<[stem |-> 3, ext |-> ".csv", fate |-> fate]>>
    /\ args_format \in FormatChoices
    /\ playwright = TRUE
    /\ formats = FormatsOf(args_format)
    /\ results = << >>
    /\ successful_files = 0
    /\ failed_files = 0
    /\ batch_result = NoneValue
    /\ batch_pc = "loop"
    /\ raw_columns \in DistinctSeqs(FileColumnUniverse, MaxMapCols)
    /\ raw_rows \in FileRows(raw_columns)
    /\ columns = << >>
    /\ data = << >>
    /\ column_mapping = << >>
    /\ file_analysis = NoneValue
    /\ analytics = NoneValue
    /\ pc = "start"
    /\ error = NoneValue
    /\ NoFile /\ LoaderInit
    /\ NoText /\ CallsInit

NextFile ==
    \/ ValidateInputFile
    \/ LoadFileRaises
    \/ NextProc
    \/ GenerateReports
    \/ ReturnFailure

SpecFile == InitFile /\ [][NextFile]_vars

(* ------------- the loader and the row loops on drawn cells -------------- *)

\* the header of the tables whose cells are drawn: the first column, and the
\* columns of the three analyses that loop over the rows
CellsHeader == <<"Reference #", "Experienced Bug", "Jira Case", "Resolution Time">>

\* a row of CellsHeader
CellsRow(reference, bug, jira, resolution_time) ==
    [c \in Range(CellsHeader) |->
        CASE c = "Reference #"     -> reference
          [] c = "Experienced Bug" -> bug
          [] c = "Jira Case"       -> jira
          [] OTHER                 -> resolution_time]

\* the rows the tables are drawn from: cases, an exporter's trailing lines, a
\* row whose first cell is empty
CellsRows ==
    {CellsRow("1001", "AL-1234", "JIRA-100 TopN", "12d 3h 33m"),
     CellsRow("1002", "CYCON-55", "JIRA-200", "0m"),
     CellsRow("1003", "ref def-5", " NULL ", "soon"),
     CellsRow("1004", "see BUG-77", "not applicable", "2H"),
     CellsRow(NaNCell, "no value", "No Value", "5m"),
     CellsRow("Record Count: 18", NaNCell, NaNCell, NaNCell),
     CellsRow("GRAND TOTAL", "AL-x", " ", "1h 30m"),
     CellsRow("summary", "DP-9", "topn", NaNCell),
     CellsRow("1005", "DP-1 BUG-2", "JIRA-300", "45m"),
     CellsRow("1006", "DP-123", "no value", "1d")}

InitCells ==
    /\ raw_columns = CellsHeader
    /\ raw_rows \in SeqsUpTo(CellsRows, MaxRows)
    /\ ProcessorInit
    /\ NoFile /\ LoaderInit
    /\ NoDirectory /\ BatchInit
    /\ NoText /\ CallsInit

SpecCells == InitCells /\ [][NextProc]_vars

(* --------------- the date analyses on drawn date columns ---------------- *)

\* the header of the tables whose dates are drawn
DatesHeader == <<"Reference #", "Date Created", "Date Last Responded">>

\* a row of DatesHeader
DatesRow(created, responded) ==
    [c \in Range(DatesHeader) |->
        CASE c = "Reference #"  -> "1001"
          [] c = "Date Created" -> created
          [] OTHER              -> responded]

\* the creation dates a long table is drawn from
RangeDates == {"2024-01-05", "03/20/2024", "01/05/2024 11:00 PM", "01/02/2024", "soon"}

\* a table of n cases: the last one created at last, the others at first
LongTable(n, first, last) ==
    [i \in 1..n |-> DatesRow(IF i = n THEN last ELSE first, NaNCell)]

\* the rows a short table is drawn from: a response after, at and before the
\* creation, dates in several formats, dates that do not parse, empty cells
ResponseRows ==
    {DatesRow("2024-01-05", "03/20/2024"),
     DatesRow("01/05/2024 11:00 PM", "2024-02-10T08:30:00"),
     DatesRow("2024-01-05", "2024-01-05 00:00:00"),
     DatesRow("20/03/2024", "01/02/2024"),
     DatesRow("soon", "03/20/2024"),
     DatesRow("01/02/2024", "soon"),
     DatesRow("2024-01-05", NaNCell),
     DatesRow(NaNCell, NaNCell)}

InitDates ==
    /\ raw_columns = DatesHeader
    /\ \/ \E n \in 1..MaxCases : \E first \in RangeDates, last \in RangeDates :
             raw_rows = LongTable(n, first, last)
       \/ raw_rows \in SeqsUpTo(ResponseRows, MaxRows)
    /\ ProcessorInit
    /\ NoFile /\ LoaderInit
    /\ NoDirectory /\ BatchInit
    /\ NoText /\ CallsInit

SpecDates == InitDates /\ [][NextProc]_vars

(* ------------------- the text functions on drawn values ----------------- *)

\* the value the next call is made on: the value given, or what the last call
\* returned
CurrentValue == IF calls = << >> THEN text_in ELSE calls[Len(calls)].ret

\* a call is made on a string: at first, or on what clean_text or
\* normalize_severity returned
CanCall ==
    /\ Len(calls) < MaxCalls
    /\ calls # << >> => calls[Len(calls)].fn \in {"clean_text", "normalize_severity"}

Call(fn, arg, ret) ==
    /\ calls' = Append(calls, [fn |-> fn, arg |-> arg, ret |-> ret])
    /\ UNCHANGED text_in
    /\ UNCHANGED <<proc_vars, load_vars, batch_vars>>

CallCleanText ==
    /\ CanCall
    /\ Call("clean_text", CurrentValue, clean_text(CurrentValue))

CallNormalizeSeverity ==
    /\ CanCall
    /\ Call("normalize_severity", CurrentValue, normalize_severity(CurrentValue))

CallIsBugCase ==
    /\ CanCall
    /\ Call("_is_bug_case", CurrentValue, _is_bug_case(CurrentValue))

\* _get_bug_analysis asks for the type of a value _is_bug_case accepted
CallExtractBugType ==
    /\ calls # << >>
    /\ calls[Len(calls)].fn = "_is_bug_case"
    /\ calls[Len(calls)].ret = TRUE
    /\ Call("_extract_bug_type", calls[Len(calls)].arg,
            _extract_bug_type(calls[Len(calls)].arg))

CallParseResolutionTime ==
    /\ CanCall
    /\ Call("_parse_resolution_time", CurrentValue, _parse_resolution_time(CurrentValue))

NextText ==
    \/ CallCleanText
    \/ CallNormalizeSeverity
    \/ CallIsBugCase
    \/ CallExtractBugType
    \/ CallParseResolutionTime

\* the severity tokens normalize_severity knows, in lower case
SeverityTokens ==
    {"1", "critical", "1 - critical", "2", "high", "2 - high",
     "3", "medium", "3 - medium", "4", "low", "4 - low"}

\* the null-like tokens
NullTokens == {"nan", "none", "null", "no value", "n/a", "na", ""}

\* a duration written with the units that are given (-1: the unit is left out)
DurationString(d, h, m) ==
    LET dd == IF d >= 0 THEN <<IntToStr(d) \o "d">> ELSE << >>
        hh == IF h >= 0 THEN <<IntToStr(h) \o "h">> ELSE << >>
        mm == IF m >= 0 THEN <<IntToStr(m) \o "m">> ELSE << >>
        parts == dd \o hh \o mm
        RECURSIVE Join(_)
        Join(q) == IF q = << >> THEN ""
                   ELSE IF Len(q) = 1 THEN q[1]
                   ELSE q[1] \o " " \o Join(Tail(q))
    IN  Join(parts)

DurationDays    == {-1, 0, 12, 134}
DurationHours   == {-1, 3, 19}
DurationMinutes == {-1, 0, 33}

\* the values the functions are called on
TextUniverse ==
    SeverityTokens
    \cup {Upper(t) : t \in SeverityTokens}
    \cup {Title(t) : t \in SeverityTokens}
    \cup {"urgent", " high ", "Sev 2"}
    \cup NullTokens
    \cup {"NaN", "None", "NULL", "No Value", "N/A", "NA",
          " nan ", " None", "null ", " n/a ", "  ", "not available", "nano"}
    \cup {"AL-1234", "CYCON-55", "al-7", "DP-12", "DP-1 BUG-2", "BUG-9", "def-3",
          "Ref DEF-5", "see BUG-77", "xAL-5", "AL-", " AL-20 "}
    \cup {DurationString(d, h, m) :
             d \in DurationDays, h \in DurationHours, m \in DurationMinutes}
    \cup {"33m 3h 12d", "12D 3H 33M", "Hardware", " padded text "}

InitText ==
    /\ text_in \in TextUniverse
    /\ CallsInit
    /\ NoTable /\ ProcessorInit
    /\ NoFile /\ LoaderInit
    /\ NoDirectory /\ BatchInit

SpecText == InitText /\ [][NextText]_vars

(* ------------------ parse_date_flexible, step by step ------------------- *)

\* a format as the string the code writes
RECURSIVE FormatString(_)
FormatString(fmt) == IF fmt = << >> THEN "" ELSE Head(fmt) \o FormatString(Tail(fmt))

\* the test that rejects a string before anything is tried
RejectedAtOnce(date_str) ==
    date_str = "" \/ Lower(date_str) \in {"nan", "none", "null", ""}

\* the loop has tried the first Len(calls) formats and none of them parsed
AllFormatsSoFarFailed ==
    \A i \in DOMAIN calls : calls[i].fn = "strptime" /\ calls[i].ret = NoDate

\* if not date_str or str(date_str).lower() in [...]: return None
ParseReject ==
    /\ calls = << >>
    /\ RejectedAtOnce(text_in)
    /\ Call("return", text_in, NoDate)

\* one pass of the loop over common_formats
ParseTryFormat ==
    /\ ~RejectedAtOnce(text_in)
    /\ Len(calls) < Len(common_formats)
    /\ AllFormatsSoFarFailed
    /\ Call("strptime", FormatString(common_formats[Len(calls) + 1]),
            strptime(Strip(text_in), common_formats[Len(calls) + 1]))

\* date_parser.parse(date_str), after the loop
ParseDateutil ==
    /\ ~RejectedAtOnce(text_in)
    /\ Len(calls) = Len(common_formats)
    /\ AllFormatsSoFarFailed
    /\ Call("date_parser.parse", Strip(text_in), dateutil_parse(Strip(text_in)))

\* return what the format that parsed, or the last resort, has read
ParseReturn ==
    /\ calls # << >>
    /\ \/ calls[Len(calls)].fn = "strptime" /\ calls[Len(calls)].ret # NoDate
       \/ calls[Len(calls)].fn = "date_parser.parse"
    /\ Call("return", text_in, calls[Len(calls)].ret)

NextParse ==
    \/ ParseReject
    \/ ParseTryFormat
    \/ ParseDateutil
    \/ ParseReturn

\* the date strings parse_date_flexible is called on
DateTexts ==
    {"01/02/2024", "02/18/2025 10:56 AM", "02/18/2025 10:56:30", "02/18/2025",
     "2025-02-18 10:56:30", "2025-02-18", "18/02/2025 10:56:30", "18/02/2025",
     "2025/02/18 10:56:30", "2025/02/18", "02-18-2025 10:56:30", "02-18-2025",
     "2025-02-18T10:56:30", " 01/02/2024 ", "02/30/2024", "13/13/2024", "soon",
     "", "nan", "None", "NULL", " nan ", "  ", "N/A", "n/a", "no value", "na"}

InitParse ==
    /\ text_in \in DateTexts
    /\ CallsInit
    /\ NoTable /\ ProcessorInit
    /\ NoFile /\ LoaderInit
    /\ NoDirectory /\ BatchInit

SpecParse == InitParse /\ [][NextParse]_vars

(* --------------- the internal/external chart on drawn cells ------------- *)

\* the label create_internal_external_chart gives a key of the breakdown
NormalizedLabel(key) ==
    IF Lower(key) \in {"yes", "true", "1", "internal"} THEN "Internal" ELSE "External"

\* the loop over breakdown.items(): every key assigns its count to its label
RECURSIVE NormalizeLabels(_, _, _)
NormalizeLabels(breakdown, order, normalized_breakdown) ==
    IF order = << >> THEN normalized_breakdown
    ELSE NormalizeLabels(breakdown, Tail(order),
             (NormalizedLabel(Head(order)) :> breakdown[Head(order)])
                 @@ normalized_breakdown)

\* the orders in which the dict of value_counts can hold its keys: by count,
\* the larger first, keys of one count in any order
ItemOrders(breakdown) ==
    {order \in DistinctSeqs(DOMAIN breakdown, Cardinality(DOMAIN breakdown)) :
        /\ Len(order) = Cardinality(DOMAIN breakdown)
        /\ \A i, j \in DOMAIN order :
               i < j => breakdown[order[i]] >= breakdown[order[j]]}

\* create_internal_external_chart on the analytics of the processor: the
\* labels and values of the chart, or the message shown when there is no
\* breakdown
CreateInternalExternalChart ==
    /\ pc = "done"
    /\ calls = << >>
    /\ LET internal_data == analytics.internal_vs_external
       IN  IF ~internal_data.available \/ DOMAIN internal_data.breakdown = {}
           THEN Call("create_internal_external_chart", internal_data,
                     "_create_not_available_message")
           ELSE \E order \in ItemOrders(internal_data.breakdown) :
                    Call("create_internal_external_chart", internal_data,
                         NormalizeLabels(internal_data.breakdown, order, << >>))

\* the cells of the internal-case column drawn
InternalCells == {"Yes", " yes ", "TRUE", "No", "no", NaNCell}

InitChart ==
    /\ raw_columns \in {<<"Reference #", "Internal Case">>, <<"Reference #">>}
    /\ \E cells \in SeqsUpTo(InternalCells, MaxRows + 1) :
          raw_rows = [i \in DOMAIN cells |->
                         [c \in Range(raw_columns) |->
                             IF c = "Internal Case" THEN cells[i] ELSE "1001"]]
    /\ ProcessorInit
    /\ NoFile /\ LoaderInit
    /\ NoDirectory /\ BatchInit
    /\ NoText /\ CallsInit

NextChart ==
    \/ NextProc
    \/ CreateInternalExternalChart

SpecChart == InitChart /\ [][NextChart]_vars

(* ------------------------------ properties ------------------------------ *)

\* load_and_analyze has returned
Analyzed == pc \in {"analyzed", "done"}

\* C1 (SpecMap): after load_and_analyze the column mapping is a partial
\* injective map from the semantic keys to the columns of the table: no
\* column is the value of two different keys.
C1_MappingInjective ==
    Analyzed =>
        /\ DOMAIN column_mapping \subseteq SemanticKeys
        /\ \A k \in DOMAIN column_mapping : column_mapping[k] \in Range(columns)
        /\ \A k1, k2 \in DOMAIN column_mapping :
               column_mapping[k1] = column_mapping[k2] => k1 = k2

\* the fallback has given 'reference' the column that 'internal_case' has
C1_SharedColumn ==
    /\ Analyzed
    /\ columns = <<" status ", "Date Created", "Internal Case">>
    /\ "reference" \in DOMAIN column_mapping
    /\ "internal_case" \in DOMAIN column_mapping
    /\ column_mapping["reference"] = column_mapping["internal_case"]

CarriesFlag(record) ==
    /\ "available" \in DOMAIN record
    /\ record.available \in BOOLEAN
    /\ record.available = FALSE =>
           "reason" \in DOMAIN record /\ record.reason \in STRING

\* the records of the bundle other than the summary
FlaggedAnalyses == Range(analysis_names) \ {"summary"}

\* C3 (SpecAnalytics), as the code has it: every record of the bundle other
\* than 'summary' carries a boolean 'available', and with it false a 'reason'.
C3_FlaggedRecords ==
    pc = "done" => \A a \in FlaggedAnalyses : CarriesFlag(analytics[a])

\* C3 as stated: every record of the bundle, the summary too, carries the flag
C3_EveryRecordFlagged ==
    pc = "done" => \A a \in Range(analysis_names) : CarriesFlag(analytics[a])

\* a bundle with an available and an unavailable record, and its summary
C3_MixedBundle ==
    /\ pc = "done"
    /\ \E a \in FlaggedAnalyses : analytics[a].available
    /\ \E a \in FlaggedAnalyses :
           ~analytics[a].available /\ analytics[a].reason \in STRING
    /\ "available" \notin DOMAIN analytics["summary"]

\* the fields whose mapping an analysis requires before it computes anything
RequiredFields(a) ==
    CASE a = "monthly_trends"        -> {"date_created"}
      [] a = "severity_analysis"     -> {"severity"}
      [] a = "product_analysis"      -> {"product_hierarchy"}
      [] a = "bug_analysis"          -> {"experienced_bug"}
      [] a = "internal_vs_external"  -> {"internal_case"}
      [] a = "queue_analysis"        -> {"queue"}
      [] a = "engineer_assignment"   -> {"assigned_account"}
      [] a = "case_owner_assignment" -> {"full_name"}
      [] a = "status_analysis"       -> {"status"}
      [] a = "escalation"            -> {"jira_case"}
      [] a = "category_analysis"     -> {"category"}
      [] a = "resolution_analysis"   -> {"resolution_code_1"}
      [] a = "response_times"        -> {"date_created", "date_responded"}
      [] OTHER                       -> {}

AllRequiredMapped(a) == RequiredFields(a) \subseteq DOMAIN column_mapping

\* the column mapping cut down to the fields an analysis requires
RequiredMapping(a) ==
    [k \in RequiredFields(a) \cap DOMAIN column_mapping |-> column_mapping[k]]

\* the analyses that also want a row with data of their own
DataDependent == {"category_analysis", "resolution_analysis", "response_times"}

\* whether some row holds what a data-dependent analysis counts
HasValidData(a) ==
    CASE a = "category_analysis" ->
             \E i \in DOMAIN data :
                 CleanCell(data[i], column_mapping["category"]) # "N/A"
      [] a = "resolution_analysis" ->
             \E i \in DOMAIN data :
                 CleanCell(data[i], column_mapping["resolution_code_1"]) # "N/A"
      [] OTHER ->
             \E i \in DOMAIN data :
                 /\ parse_date_flexible(Str(data[i][column_mapping["date_created"]])) # NoDate
                 /\ parse_date_flexible(Str(data[i][column_mapping["date_responded"]])) # NoDate
                 /\ Timestamp(parse_date_flexible(
                        Str(data[i][column_mapping["date_responded"]])))
                      > Timestamp(parse_date_flexible(
                            Str(data[i][column_mapping["date_created"]])))

\* the outcome of an analysis: its flag, and the reason of an unavailable one
Outcome(record) ==
    IF record.available THEN <<TRUE>> ELSE <<FALSE, record.reason>>

\* C4 (SpecAnalytics), as the code has it: a flagged analysis with a required
\* field unmapped is unavailable with a reason; with every required field
\* mapped it is available, except that category_analysis, resolution_analysis
\* and response_times are available only if some row holds valid data for
\* them; the outcome is the one the analysis has when no field but its own
\* required ones is mapped.
C4_AvailabilityByOwnFields ==
    pc = "done" =>
        \A a \in FlaggedAnalyses :
            /\ ~AllRequiredMapped(a) =>
                   /\ analytics[a].available = FALSE
                   /\ analytics[a].reason \in STRING
            /\ AllRequiredMapped(a) /\ a \notin DataDependent =>
                   analytics[a].available = TRUE
            /\ AllRequiredMapped(a) /\ a \in DataDependent =>
                   /\ analytics[a].available = HasValidData(a)
                   /\ CarriesFlag(analytics[a])
            /\ Outcome(analytics[a]) =
                   Outcome(process_executive_analytics(data, RequiredMapping(a))[a])

\* C4 as stated: available exactly when every required field is mapped
C4_AvailableWhenMapped ==
    pc = "done" =>
        \A a \in FlaggedAnalyses :
            /\ ~AllRequiredMapped(a) => analytics[a].available = FALSE
            /\ AllRequiredMapped(a) => analytics[a].available = TRUE

\* two analyses with their fields mapped, one unavailable for want of data,
\* and one with its field unmapped
C4_MappedButNoData ==
    /\ pc = "done"
    /\ Len(data) > 0
    /\ AllRequiredMapped("category_analysis")
    /\ ~analytics["category_analysis"].available
    /\ AllRequiredMapped("engineer_assignment")
    /\ analytics["engineer_assignment"].available
    /\ ~AllRequiredMapped("case_owner_assignment")
    /\ ~analytics["case_owner_assignment"].available

\* C5 (SpecAnalytics): of a table with no row and a mapped severity column the
\* severity analysis is unavailable, and nothing is raised.
C5_NoRowsUnavailable ==
    /\ pc # "raised"
    /\ pc = "done" /\ Len(data) = 0 /\ "severity" \in DOMAIN column_mapping =>
           analytics["severity_analysis"].available = FALSE

\* the severity analysis of a table with no row: available, with no count
C5_NoRowsAvailable ==
    /\ pc = "done"
    /\ raw_rows = << >>
    /\ "severity" \in DOMAIN column_mapping
    /\ analytics["severity_analysis"].available = TRUE
    /\ analytics["severity_analysis"].total = 0

\* the entries of the input directory that discovery takes
Discoverable == {f \in input_dir : f.ext \in {".csv", ".xlsx", ".xls"}}

\* what holds of every batch that has returned, whatever its success flag
BatchAccounts ==
    /\ {input_files[i] : i \in DOMAIN input_files} = Discoverable
    /\ Len(input_files) = Cardinality(Discoverable)
    /\ \A i, j \in DOMAIN input_files : i < j => input_files[i].stem < input_files[j].stem
    /\ Len(batch_result.results) = Len(input_files)
    /\ \A i \in DOMAIN input_files :
           /\ batch_result.results[i].file_path = input_files[i]
           /\ batch_result.results[i].success = (input_files[i].fate = "ok")
    /\ batch_result.total_files = Len(input_files)
    /\ batch_result.processed_files + batch_result.failed_files = batch_result.total_files
    /\ batch_result.failed_files =
           Cardinality({i \in DOMAIN input_files : input_files[i].fate # "ok"})

\* C6 (SpecBatch), as the code has it: process_all_files handles every
\* discovered file once, in sorted order, with one result each, a failure not
\* stopping the files after it; processed_files + failed_files = total_files
\* = number of results; 'success' is true iff no file failed and at least one
\* file was discovered.
C6_BatchAccountsNonEmpty ==
    batch_pc = "returned" =>
        /\ BatchAccounts
        /\ batch_result.success =
               (batch_result.failed_files = 0 /\ batch_result.total_files > 0)

\* C6 as stated: 'success' is true iff no file failed
C6_SuccessIffNoFailure ==
    batch_pc = "returned" =>
        /\ BatchAccounts
        /\ batch_result.success = (batch_result.failed_files = 0)

\* a batch in which a file failed and a later one succeeded
C6_FailureThenSuccess ==
    /\ batch_pc = "returned"
    /\ \E i, j \in DOMAIN results :
           i < j /\ ~results[i].success /\ results[j].success
    /\ ~batch_result.success

\* the result record of a file: a success with its three payloads, or a
\* failure with one error string and no analytics
WellFormedResult(result) ==
    /\ "raised" \notin DOMAIN result
    /\ "success" \in DOMAIN result
    /\ result.success \in BOOLEAN
    /\ result.success =>
           /\ {"analytics", "file_analysis", "generated_files"} \subseteq DOMAIN result
           /\ "error" \notin DOMAIN result
    /\ ~result.success =>
           /\ "error" \in DOMAIN result
           /\ result.error \in STRING
           /\ "analytics" \notin DOMAIN result

\* C7 (SpecBatch): process_single_file never raises to process_all_files;
\* every result is a success with analytics, file_analysis and generated_files
\* or a failure with one 'error' string and no analytics.
C7_NeverRaises ==
    /\ batch_pc # "raised"
    /\ \A i \in DOMAIN results : WellFormedResult(results[i])

\* results of a file whose report generation raised, of one whose load
\* raised, and of one that went through
C7_CaughtFailures ==
    /\ batch_pc = "returned"
    /\ \E i \in DOMAIN results :
           input_files[i].fate = "report_error" /\ results[i].error = "report_error"
    /\ \E i \in DOMAIN results :
           input_files[i].fate = "load_error" /\ ~results[i].success
    /\ \E i \in DOMAIN results : results[i].success

\* C8 (SpecLoad): the encoding detect_file_encoding returns decodes the
\* whole file, whatever the file holds and whatever chardet reports.
C8_ReturnedEncodingDecodes ==
    load_pc = "detected" => OpenRead(encoding, file_bytes) = "ok"

\* chardet names an encoding Python has no codec for: 'utf-8' is returned
\* for a file that is no UTF-8
C8_UnvalidatedUtf8 ==
    /\ load_pc = "detected"
    /\ chardet_result = "EUC-TW"
    /\ file_bytes = "latin"
    /\ encoding = "utf-8"
    /\ OpenRead(encoding, file_bytes) = "UnicodeDecodeError"

\* C9 (SpecLoad): the load of a CSV file never fails for bytes that do not
\* decode: at worst the table is read as utf-8 with replacement.
C9_NoDecodeFailure ==
    /\ load_error # "UnicodeDecodeError"
    /\ load_pc = "loaded" =>
           \/ encoding_errors = "strict" /\ OpenRead(encoding, file_bytes) = "ok"
           \/ encoding_errors = "replace" /\ encoding = "utf-8"

\* the load has failed in readlines, before pandas and its fallbacks
C9_ReadlinesFailed ==
    /\ load_pc = "failed"
    /\ load_error = "UnicodeDecodeError"
    /\ lines = << >>
    /\ file_lines # << >>

\* the first and the second line as the title check reads them, '' for a line
\* the file does not have
LineOrEmpty(i) == IF i <= Len(lines) THEN StrippedLine(lines[i]) ELSE ""

\* the header offset has been computed
HeaderDetected == load_pc \in {"header", "loaded"}

\* C10 (SpecLoad), as the code has it: the header offset is 0 or 1, and it
\* is 1 exactly when the file has at least two lines and either the leading
\* field of the first line is a known title pattern, or that field is not
\* empty, the first line holds no header keyword and the second holds one; a
\* first line "Open Cases All" before a line 'Reference #,Status,...' skips
\* one row.
C10_OffsetOfTwoLines ==
    HeaderDetected =>
        /\ skip_rows \in {0, 1}
        /\ skip_rows = 1 <=>
               /\ Len(lines) > 1
               /\ \/ FirstPart(LineOrEmpty(1)) \in
                         {"open cases all", "all cases", "case report", "tac cases"}
                  \/ /\ FirstPart(LineOrEmpty(1)) # ""
                     /\ ~HasHeaderKeyword(LineOrEmpty(1))
                     /\ HasHeaderKeyword(LineOrEmpty(2))
        /\ Len(lines) > 1 /\ LineOrEmpty(1) = "Open Cases All"
             /\ StartsWith(LineOrEmpty(2), "Reference #,Status,") => skip_rows = 1

\* C10 as stated: the offset is 1 exactly when the leading field of the first
\* line is a known title pattern, or the first line holds no header keyword
\* while the second holds one
C10_OffsetByTitleOrKeywords ==
    HeaderDetected =>
        /\ skip_rows \in {0, 1}
        /\ skip_rows = 1 <=>
               \/ FirstPart(LineOrEmpty(1)) \in
                      {"open cases all", "all cases", "case report", "tac cases"}
               \/ /\ ~HasHeaderKeyword(LineOrEmpty(1))
                  /\ HasHeaderKeyword(LineOrEmpty(2))

\* the quoted title before the header: one row is skipped
C10_TitleSkipped ==
    /\ load_pc = "header"
    /\ file_lines = <<"\"Open Cases All\"", "Reference #,Status,Date Created">>
    /\ skip_rows = 1

\* the table as the loader leaves it: the rows read, less the footer rows
LoadedRows == RemoveFooterRows(raw_columns, raw_rows)

\* the words of the record-count / total / summary pattern
FooterWords == {"record count", "total", "summary"}

MatchesFooterWords(text) == \E w \in FooterWords : Contains(Lower(text), w)

\* C11: after the loader has run, no row of the table has a first-column value
\* that matches the record-count / total / summary pattern (in any letter
\* case) or that is empty.
C11_NoFooterOrEmptyFirstCell ==
    pc = "loaded" =>
        \A i \in DOMAIN data :
            /\ data[i][columns[1]] # NaNCell
            /\ data[i][columns[1]] # ""
            /\ ~MatchesFooterWords(data[i][columns[1]])

\* C11, its case: a footer row was removed and a row with an empty first cell
\* was kept
C11_EmptyFirstCellKept ==
    /\ pc = "loaded"
    /\ Len(data) < Len(raw_rows)
    /\ \E i \in DOMAIN data : data[i][columns[1]] = NaNCell

\* C12: the footer filter is a fixed point: applied to the table it has
\* filtered, it removes no further row.
C12_FilterFixedPoint ==
    pc = "loaded" => RemoveFooterRows(columns, data) = data

\* C12, its case: the filter removed a row and kept another
C12_FooterRemoved ==
    /\ pc = "loaded"
    /\ data # << >>
    /\ Len(data) < Len(raw_rows)
    /\ \E i \in DOMAIN raw_rows : MatchesFooterWords(Str(raw_rows[i][raw_columns[1]]))

\* the canonical severity labels
SeverityLabels == {"1 - Critical", "2 - High", "3 - Medium", "4 - Low"}

\* C13: for a recognized severity token, in any letter case, normalize_severity
\* returns one of the four canonical labels, and normalize_severity of that
\* label is the label again.
C13_SeverityIdempotent ==
    \A i \in DOMAIN calls :
        (calls[i].fn = "normalize_severity" /\ Lower(calls[i].arg) \in SeverityTokens) =>
            /\ calls[i].ret \in SeverityLabels
            /\ (i < Len(calls) /\ calls[i + 1].fn = "normalize_severity") =>
                   calls[i + 1].ret = calls[i].ret

\* C13, its case: normalize_severity called twice in a row on 'HIGH'
C13_HighTwice ==
    /\ text_in = "HIGH"
    /\ Len(calls) = 2
    /\ calls[1].fn = "normalize_severity"
    /\ calls[2].fn = "normalize_severity"
    /\ calls[2].arg = "2 - High"
    /\ calls[2].ret = "2 - High"

\* C14: a null-like severity value ('nan', 'none', 'null', 'no value', 'n/a',
\* 'na', empty) becomes 'Unknown', both when normalize_severity is called on it
\* and when normalize_severity is called on what clean_text made of it.
C14_NullLikeSeverityUnknown ==
    Lower(text_in) \in NullTokens =>
        /\ (Len(calls) >= 1 /\ calls[1].fn = "normalize_severity") =>
               calls[1].ret = "Unknown"
        /\ (Len(calls) >= 2 /\ calls[1].fn = "clean_text"
                            /\ calls[2].fn = "normalize_severity") =>
               calls[2].ret = "Unknown"

\* C14, its case: 'nan' cleaned and then normalized is 'N/A'
C14_NullLikeBecomesNA ==
    /\ text_in = "nan"
    /\ Len(calls) = 2
    /\ calls[1].fn = "clean_text"
    /\ calls[2].fn = "normalize_severity"
    /\ calls[2].ret = "N/A"

\* C15: clean_text returns 'N/A' when its input, surrounding whitespace and
\* letter case ignored, is a null-like token, and the input stripped of
\* surrounding whitespace otherwise.
C15_CleanTextContract ==
    (calls # << >> /\ calls[1].fn = "clean_text") =>
        calls[1].ret = IF Lower(Strip(text_in)) \in NullTokens
                       THEN "N/A"
                       ELSE Strip(text_in)

\* C15, its case: clean_text of ' nan ' is 'nan'
C15_PaddedNanKept ==
    /\ text_in = " nan "
    /\ calls # << >>
    /\ calls[1].fn = "clean_text"
    /\ calls[1].ret = "nan"

\* the bug identifiers, and a value that holds one of them followed by a digit
BugPrefixes == {"AL-", "CYCON-", "BUG-", "DEF-"}

MatchesBugPattern(value) ==
    \E p \in BugPrefixes : \E i \in 1..Len(value) :
        /\ i + Len(p) <= Len(value)
        /\ Upper(SubSeq(value, i, i + Len(p) - 1)) = p
        /\ IsDigit(CharAt(value, i + Len(p)))

\* C16: the bug analysis counts as bug cases exactly the rows whose
\* experienced-bug value matches AL-<digits>, CYCON-<digits>, BUG-<digits> or
\* DEF-<digits> in any letter case, and every other row as a non-bug case.
C16_BugCasesByPattern ==
    (pc = "done" /\ "experienced_bug" \in DOMAIN column_mapping) =>
        LET bug_col == column_mapping["experienced_bug"]
            bugs == {i \in DOMAIN LoadedRows :
                        MatchesBugPattern(Str(LoadedRows[i][bug_col]))}
        IN  analytics.bug_analysis.bug_vs_non_bug =
                ("Bug Cases" :> Cardinality(bugs))
                    @@ ("Non-Bug Cases" :> Len(LoadedRows) - Cardinality(bugs))

\* C16, its case: a table with a bug row and a 'no value' row
C16_BugAndNonBug ==
    /\ pc = "done"
    /\ analytics.bug_analysis.bug_vs_non_bug["Bug Cases"] = 1
    /\ analytics.bug_analysis.bug_vs_non_bug["Non-Bug Cases"] = 1
    /\ \E i \in DOMAIN LoadedRows : LoadedRows[i]["Experienced Bug"] = "no value"

\* the type label of a value by the prefix it begins with
TypeByPrefix(value) ==
    CASE StartsWith(Upper(value), "AL-")     -> "Alteon"
      [] StartsWith(Upper(value), "CYCON-")  -> "CyberController"
      [] StartsWith(Upper(value), "DP-")     -> "DefensePro"
      [] \/ StartsWith(Upper(value), "BUG-")
         \/ StartsWith(Upper(value), "DEF-") -> "General"
      [] OTHER                               -> "Other"

\* C17: the type label of a bug value follows from the prefix the value begins
\* with: AL- Alteon, CYCON- CyberController, DP- DefensePro, BUG- or DEF-
\* General, none of these Other.
C17_TypeByPrefix ==
    \A i \in DOMAIN calls :
        calls[i].fn = "_extract_bug_type" => calls[i].ret = TypeByPrefix(calls[i].arg)

\* C17, its case: a bug value that begins with no prefix is typed General
C17_GeneralWithoutPrefix ==
    \E i \in DOMAIN calls :
        /\ calls[i].fn = "_extract_bug_type"
        /\ calls[i].arg = "see BUG-77"
        /\ calls[i].ret = "General"

\* the values that mean no data
NoValueTokens ==
    NullTokens \cup {"not available", "not applicable", "no data", "empty"}

\* the escalation class of a jira-case value
EscalationOf(value) ==
    CASE value = NaNCell \/ Lower(Strip(value)) \in NoValueTokens -> "Not Escalated"
      [] Contains(Lower(value), "topn")                          -> "Escalated TopN"
      [] OTHER                                                   -> "Escalated"

\* C18: the escalation analysis puts every row in exactly one of the classes
\* Not Escalated (null-like jira-case value), Escalated TopN (holds 'topn' in
\* any letter case) and Escalated (any other value), so that the three counts
\* sum to the number of rows.
C18_ExactlyOneClass ==
    (pc = "done" /\ "jira_case" \in DOMAIN column_mapping) =>
        LET jira_col == column_mapping["jira_case"]
            counts == analytics.escalation.counts
        IN  /\ DOMAIN counts = {"Not Escalated", "Escalated", "Escalated TopN"}
            /\ \A c \in DOMAIN counts :
                   counts[c] = Cardinality({i \in DOMAIN LoadedRows :
                                               EscalationOf(LoadedRows[i][jira_col]) = c})
            /\ counts["Not Escalated"] + counts["Escalated"] + counts["Escalated TopN"]
                   = Len(data)

\* C18, its case: a TopN row and a row without a jira case
C18_TopNAndNotEscalated ==
    /\ pc = "done"
    /\ analytics.escalation.available
    /\ analytics.escalation.counts["Escalated TopN"] = 1
    /\ analytics.escalation.counts["Not Escalated"] = 1

\* the minutes of n units of per minutes each, none when the unit is left out
MinutesOf(n, per) == IF n >= 0 THEN n * per ELSE 0

\* C19: for a duration made of the tokens <N>d, <N>h, <N>m, each at most once,
\* _parse_resolution_time returns days*1440 + hours*60 + minutes; '12d 3h 33m'
\* gives 12*1440 + 3*60 + 33 = 17493.
C19_MinutesOfDuration ==
    (calls # << >> /\ calls[1].fn = "_parse_resolution_time") =>
        /\ \A d \in DurationDays, h \in DurationHours, m \in DurationMinutes :
               text_in = DurationString(d, h, m) =>
                   calls[1].ret = MinutesOf(d, 1440) + MinutesOf(h, 60) + MinutesOf(m, 1)
        /\ (text_in \in {"12d 3h 33m", "33m 3h 12d"} => calls[1].ret = 17493)

\* C19 as stated: the same, with '12d 3h 33m' giving 17433
C19_MinutesAsStated ==
    (calls # << >> /\ calls[1].fn = "_parse_resolution_time") =>
        /\ \A d \in DurationDays, h \in DurationHours, m \in DurationMinutes :
               text_in = DurationString(d, h, m) /\ text_in # "12d 3h 33m" =>
                   calls[1].ret = MinutesOf(d, 1440) + MinutesOf(h, 60) + MinutesOf(m, 1)
        /\ (text_in = "12d 3h 33m" => calls[1].ret = 17433)

\* C19, its case: '12d 3h 33m' parsed
C19_Scenario ==
    /\ text_in = "12d 3h 33m"
    /\ Len(calls) = 1
    /\ calls[1].fn = "_parse_resolution_time"
    /\ calls[1].ret = 12 * 1440 + 3 * 60 + 33

\* a duration string holds a token <N>d, <N>h or <N>m
HasDurationToken(value) ==
    /\ value # NaNCell
    /\ \E i \in 2..Len(value) :
           /\ Lower(CharAt(value, i)) \in {"d", "h", "m"}
           /\ IsDigit(CharAt(value, i - 1))

\* an average of minutes written as DDd:HHh:MMm
FormatTTR(avg_minutes) ==
    Pad2(avg_minutes \div 1440) \o "d:" \o Pad2((avg_minutes % 1440) \div 60)
        \o "h:" \o Pad2(avg_minutes % 60) \o "m"

\* C20: the average time to resolution of the summary is the average over
\* exactly the rows whose duration holds a token <N>d, <N>h or <N>m, and is
\* 'N/A' when there is no such row.
C20_AverageOverValidDurations ==
    (pc = "done" /\ "resolution_time" \in DOMAIN column_mapping) =>
        LET col == column_mapping["resolution_time"]
            valid == SelectSeq(LoadedRows, LAMBDA row : HasDurationToken(row[col]))
            minutes == [i \in DOMAIN valid |-> _parse_resolution_time(valid[i][col])]
        IN  analytics.summary.average_ttr =
                IF valid = << >> THEN "N/A"
                ELSE FormatTTR(SumSeq(minutes) \div Len(minutes))

\* C20, its case: the only row has the duration '0m' and the average is 'N/A'
C20_ZeroDurationLeftOut ==
    /\ pc = "done"
    /\ Len(LoadedRows) = 1
    /\ LoadedRows[1]["Resolution Time"] = "0m"
    /\ analytics.summary.average_ttr = "N/A"

\* the instant a drawn date text names, in minutes since 2024-01-01 00:00, and
\* -1 for a text that names no date
InstantOf(text) ==
    CASE text = "01/02/2024"           -> 1 * 1440
      [] text = "2024-01-05"           -> 4 * 1440
      [] text = "2024-01-05 00:00:00"  -> 4 * 1440
      [] text = "01/05/2024 11:00 PM"  -> 4 * 1440 + 23 * 60
      [] text = "2024-02-10T08:30:00"  -> 40 * 1440 + 8 * 60 + 30
      [] text = "03/20/2024"           -> 79 * 1440
      [] text = "20/03/2024"           -> 79 * 1440
      [] OTHER                         -> -1

\* the creation instants of the loaded rows
CreatedInstants == {InstantOf(LoadedRows[i]["Date Created"]) : i \in DOMAIN LoadedRows} \ {-1}

Least(S) == CHOOSE x \in S : \A y \in S : x <= y
Greatest(S) == CHOOSE x \in S : \A y \in S : x >= y

\* (max - min) in days, plus one
InclusiveDays(S) == (Greatest(S) - Least(S)) \div 1440 + 1

\* n cases over days days, per month of 30.44 days and no less than one month,
\* in tenths
CasesPerMonth(n, days) ==
    IF days * 100 <= 3044 THEN n * 10 ELSE RoundDiv(n * 10 * 3044, days * 100)

\* the creation dates range from 2024-01-05 to 2024-03-20
ScenarioRange ==
    /\ CreatedInstants # {}
    /\ Least(CreatedInstants) = 4 * 1440
    /\ Greatest(CreatedInstants) = 79 * 1440

Responded(row) ==
    /\ InstantOf(row["Date Created"]) >= 0
    /\ InstantOf(row["Date Last Responded"]) >= 0
    /\ InstantOf(row["Date Last Responded"]) > InstantOf(row["Date Created"])

ExplicitFormats ==
    <<"%m/%d/%Y %I:%M %p", "%m/%d/%Y %H:%M:%S", "%m/%d/%Y",
      "%Y-%m-%d %H:%M:%S", "%Y-%m-%d",
      "%d/%m/%Y %H:%M:%S", "%d/%m/%Y",
      "%Y/%m/%d %H:%M:%S", "%Y/%m/%d",
      "%m-%d-%Y %H:%M:%S", "%m-%d-%Y">>

\* the calls before call i are explicit formats that did not parse
OnlyFailuresBefore(i) ==
    \A j \in 1..(i - 1) : calls[j].fn = "strptime" /\ calls[j].ret = NoDate

\* the explicit formats are tried in list order, the first that parses is
\* returned, the general-purpose parser is called after all of them failed, and
\* a string of the set rejected is returned None before anything is tried
ParsesInOrder(rejected) ==
    /\ \A i \in DOMAIN calls :
           /\ calls[i].fn = "strptime" =>
                  /\ i <= Len(ExplicitFormats)
                  /\ calls[i].arg = ExplicitFormats[i]
                  /\ OnlyFailuresBefore(i)
           /\ calls[i].fn = "date_parser.parse" =>
                  /\ i = Len(ExplicitFormats) + 1
                  /\ OnlyFailuresBefore(i)
           /\ calls[i].fn = "return" =>
                  /\ i = Len(calls)
                  /\ IF i = 1
                     THEN calls[i].ret = NoDate
                     ELSE /\ calls[i].ret = calls[i - 1].ret
                          /\ calls[i - 1].fn = "strptime" => calls[i - 1].ret # NoDate
    /\ Lower(text_in) \in rejected => \A i \in DOMAIN calls : calls[i].fn = "return"
    /\ (calls # << >> /\ calls[1].fn = "return") => Lower(text_in) \in rejected
    /\ (text_in = "01/02/2024" /\ calls # << >> /\ calls[Len(calls)].fn = "return") =>
           calls[Len(calls)].ret =
               [year |-> 2024, month |-> 1, day |-> 2,
                hour |-> 0, minute |-> 0, second |-> 0]

\* C23: parse_date_flexible tries the explicit formats in list order and
\* returns what the first format that parses has read; the general-purpose
\* parser is called only after every explicit format failed; a string that is
\* empty or 'nan', 'none' or 'null' in any letter case is rejected before any
\* format is tried; 01/02/2024 is read month first.
C23_FirstFormatWins == ParsesInOrder({"nan", "none", "null", ""})

\* C23 as stated: every null-like string is rejected before any format is tried
C23_NullLikeRejectedFirst == ParsesInOrder(NullTokens)

\* C23, its case: 01/02/2024 fails two formats, parses with the third, month
\* first, and is returned
C23_MonthFirst ==
    /\ text_in = "01/02/2024"
    /\ Len(calls) = 4
    /\ calls[3].fn = "strptime"
    /\ calls[3].arg = "%m/%d/%Y"
    /\ calls[4].fn = "return"
    /\ calls[4].ret.month = 1
    /\ calls[4].ret.day = 2

\* column i matches synonym v of field e: equal, letter case and the
\* whitespace around the column name set aside
MatchesSynonym(i, e, v) == Lower(Strip(columns[i])) = lower_variants[e][v]

\* the synonyms of field e that some column matches
MatchedSynonyms(e) ==
    {v \in DOMAIN lower_variants[e] : \E i \in DOMAIN columns : MatchesSynonym(i, e, v)}

\* C24: _create_column_mapping maps a field exactly when a column matches one
\* of its synonyms, and then to the first column, in column order, that
\* matches the earliest matched synonym of the priority list, under its
\* original, untrimmed name.
C24_EarliestSynonymWins ==
    pc = "mapped" =>
        \A e \in DOMAIN expected_columns :
            IF MatchedSynonyms(e) = {}
            THEN expected_columns[e].key \notin DOMAIN column_mapping
            ELSE /\ expected_columns[e].key \in DOMAIN column_mapping
                 /\ column_mapping[expected_columns[e].key] =
                        columns[Least({i \in DOMAIN columns :
                                   MatchesSynonym(i, e, Least(MatchedSynonyms(e)))})]

\* C24, its case: the column of a later synonym comes first, two columns match
\* the earliest synonym, and the first of these is taken under its own name
C24_PriorityBeforeColumnOrder ==
    /\ pc = "mapped"
    /\ columns = <<"Case Status", " status ", "STATUS">>
    /\ column_mapping["status"] = " status "

\* the rows of the loaded table whose experienced-bug value begins with DP-
\* and holds an identifier of one of the four bug patterns
DefenseProRows(bug_col) ==
    {i \in DOMAIN LoadedRows :
        /\ StartsWith(Upper(Strip(Str(LoadedRows[i][bug_col]))), "DP-")
        /\ MatchesBugPattern(Str(LoadedRows[i][bug_col]))}

\* C25: the type DefensePro is given to exactly the rows whose experienced-bug
\* value begins with DP- and holds an identifier AL-<digits>, CYCON-<digits>,
\* BUG-<digits> or DEF-<digits> further on; a value that is DP-<digits> alone
\* is not a bug case and gets no type.
C25_DefenseProOnlyWithOtherId ==
    (pc = "done" /\ "experienced_bug" \in DOMAIN column_mapping) =>
        LET dp == DefenseProRows(column_mapping["experienced_bug"])
            bug_types == analytics.bug_analysis.bug_types
        IN  IF dp = {}
            THEN "DefensePro" \notin DOMAIN bug_types
            ELSE /\ "DefensePro" \in DOMAIN bug_types
                 /\ bug_types["DefensePro"] = Cardinality(dp)

\* C25 as stated: bug_types never has the key DefensePro
C25_DefenseProUnreachable ==
    (pc = "done" /\ "experienced_bug" \in DOMAIN column_mapping) =>
        "DefensePro" \notin DOMAIN analytics.bug_analysis.bug_types

\* C25, its case: of the rows 'DP-1 BUG-2' and 'DP-123' the first alone is a bug
\* case, typed DefensePro
C25_DefenseProReached ==
    /\ pc = "done"
    /\ Len(LoadedRows) = 2
    /\ LoadedRows[1]["Experienced Bug"] = "DP-1 BUG-2"
    /\ LoadedRows[2]["Experienced Bug"] = "DP-123"
    /\ analytics.bug_analysis.bug_vs_non_bug["Bug Cases"] = 1
    /\ analytics.bug_analysis.bug_types = ("DefensePro" :> 1)

\* the places in results of the files processed with success
Succeeded == {i \in DOMAIN results : results[i].success}

\* C27: when the format asked for is 'both', the formats passed on hold 'html'
\* and 'pdf', and every file processed with success has a report of both
\* formats among its generated files.
C27_BothGivesHtmlAndPdf ==
    args_format = "both" =>
        /\ {"html", "pdf"} \subseteq Range(formats)
        /\ \A i \in Succeeded : DOMAIN results[i].generated_files = {"html", "pdf"}

\* C27, its case: a file processed with success under 'both' has an HTML
\* report and no PDF
C27_BothGivesHtmlOnly ==
    /\ args_format = "both"
    /\ batch_pc = "returned"
    /\ \E i \in Succeeded :
          DOMAIN results[i].generated_files = {"html"}

\* C30: two distinct input files of one batch are written to distinct report
\* paths.
C30_DistinctReportPaths ==
    \A i, j \in Succeeded :
        results[i].file_path # results[j].file_path =>
            Range(results[i].generated_files) \cap Range(results[j].generated_files) = {}

\* C30, its case: the reports of 'Q1 cases.csv' and of 'Q1_cases.csv' are
\* written to one path
C30_ReportOverwritten ==
    \E i, j \in Succeeded :
        /\ i < j
        /\ PathName(results[i].file_path) = "Q1 cases.csv"
        /\ PathName(results[j].file_path) = "Q1_cases.csv"
        /\ results[i].generated_files["html"] = "Q1_cases_executive_report.html"
        /\ results[j].generated_files["html"] = "Q1_cases_executive_report.html"

\* C30, another case: the reports of 'Q2.csv' and of 'Q2.xlsx' are written to
\* one path
C30_SameStemOverwritten ==
    \E i, j \in Succeeded :
        /\ PathName(results[i].file_path) = "Q2.csv"
        /\ PathName(results[j].file_path) = "Q2.xlsx"
        /\ "pdf" \in DOMAIN results[i].generated_files
        /\ "pdf" \in DOMAIN results[j].generated_files
        /\ results[i].generated_files["pdf"] = results[j].generated_files["pdf"]

\* the stages of process_single_file, by the position from which each runs
StagePositions ==
    <<"start", "init", "loaded", "mapped", "validated", "analyzed", "done">>

\* the stage that runs from position p, 0 when none does
StageFrom(p) ==
    IF \E k \in DOMAIN StagePositions : StagePositions[k] = p
    THEN CHOOSE k \in DOMAIN StagePositions : StagePositions[k] = p
    ELSE 0

\* a step of the stages in order: validation, load, exact mapping, fallback,
\* cleaning, analytics, report; a stage that completes leads to the next one,
\* the last to the return, and a stage that fails to no further stage
StagesInOrder ==
    pc' # pc =>
        \/ /\ StageFrom(pc) \in 1..6
           /\ pc' = StagePositions[StageFrom(pc) + 1]
        \/ /\ StageFrom(pc) = 7
           /\ pc' = "returned"
           /\ results' # << >> /\ results'[1].success
        \/ /\ StageFrom(pc) = 1
           /\ pc' = "returned"
           /\ results' # << >> /\ ~results'[1].success
        \/ /\ StageFrom(pc) \in 2..7
           /\ pc' = "raised"
        \/ /\ pc = "raised"
           /\ pc' = "returned"
           /\ results' # << >> /\ ~results'[1].success

\* the file is one whose validation or load fails
ValidationOrLoadFails == input_files[1].fate \in {"invalid", "load_error"}

\* the analytics stage has run to its end
AnalyticsComputed ==
    \/ pc = "done"
    \/ error = "report_error"
    \/ results # << >> /\ results[1].success

\* no stage after the load, no analytics and no report for a file whose
\* validation or load fails
NothingAfterFailure ==
    ValidationOrLoadFails =>
        /\ pc \in {"start", "init", "raised", "returned"}
        /\ ~AnalyticsComputed
        /\ results = << >> \/ "generated_files" \notin DOMAIN results[1]

\* the analytics were computed from the cleaned table under the mapping with
\* its fallback
AnalyticsOnCleanedTable ==
    AnalyticsComputed =>
        /\ column_mapping =
               _validate_columns(_create_column_mapping(<< >>, columns), columns)
        /\ data = _clean_data(LoadedRows, columns, column_mapping)
        /\ analytics = process_executive_analytics(data, column_mapping)

\* C26: the stages of one file run in the order validation, load, exact
\* mapping, fallback, cleaning, analytics, report, each only after the one
\* before it completed; a file whose validation or load failed gets no
\* analytics and no report; the analytics read the cleaned table under the
\* completed mapping.
C26_StagesInOrder ==
    /\ [](NothingAfterFailure /\ AnalyticsOnCleanedTable)
    /\ [][StagesInOrder]_vars

\* C26, its case: a file went through every stage; the fallback mapped a
\* field, the cleaning changed the cells, the footer line was dropped
C26_AllStagesRan ==
    /\ pc = "returned"
    /\ results # << >> /\ results[1].success
    /\ "html" \in DOMAIN results[1].generated_files
    /\ raw_columns = <<"Ticket Ref", "SEVERITY">>
    /\ Len(raw_rows) = 2
    /\ column_mapping = ("reference" :> "Ticket Ref") @@ ("severity" :> "SEVERITY")
    /\ data = <<("Ticket Ref" :> "2 - High") @@ ("SEVERITY" :> "2 - High")>>
    /\ results[1].analytics = analytics

\* the sum of the counts of a tally
RECURSIVE TallySum(_)
TallySum(tally) ==
    IF DOMAIN tally = {} THEN 0
    ELSE LET k == CHOOSE x \in DOMAIN tally : TRUE
         IN  tally[k] + TallySum([x \in DOMAIN tally \ {k} |-> tally[x]])

\* C28: with the experienced-bug field mapped, Bug Cases and Non-Bug Cases
\* sum to the number of rows, there is one bug detail record for every bug
\* case, the counts of bug_types sum to Bug Cases, and with severity mapped
\* the counts of bug_severity sum to Bug Cases too.
C28_BugTalliesConsistent ==
    (pc = "done" /\ "experienced_bug" \in DOMAIN column_mapping) =>
        LET bug_analysis == analytics.bug_analysis
            bug_cases == bug_analysis.bug_vs_non_bug["Bug Cases"]
        IN  /\ bug_cases + bug_analysis.bug_vs_non_bug["Non-Bug Cases"] = Len(data)
            /\ Len(bug_analysis.bug_cases_details) = bug_cases
            /\ TallySum(bug_analysis.bug_types) = bug_cases
            /\ "severity" \in DOMAIN column_mapping =>
                   TallySum(bug_analysis.bug_severity) = bug_cases

\* C28, its case: two bug cases, one typed Other with an empty severity cell,
\* one typed Alteon with a severity
C28_TwoBugRows ==
    /\ pc = "done"
    /\ "severity" \in DOMAIN column_mapping
    /\ Len(raw_rows) = 2
    /\ raw_rows[1]["Experienced Bug"] = "xAL-5" /\ raw_rows[1]["Severity"] = NaNCell
    /\ raw_rows[2]["Experienced Bug"] = "AL-1234" /\ raw_rows[2]["Severity"] = "2 - high"
    /\ analytics.bug_analysis.bug_vs_non_bug = ("Bug Cases" :> 2) @@ ("Non-Bug Cases" :> 0)
    /\ analytics.bug_analysis.bug_types = ("Other" :> 1) @@ ("Alteon" :> 1)
    /\ analytics.bug_analysis.bug_severity = ("N/A" :> 1) @@ ("2 - High" :> 1)

\* the count shown under a label, 0 when the label is not shown
Shown(normalized_breakdown, label) ==
    IF label \in DOMAIN normalized_breakdown THEN normalized_breakdown[label] ELSE 0

\* the total of the counts of the keys of a breakdown that are among keys
TotalOf(breakdown, keys) == TallySum([k \in DOMAIN breakdown \cap keys |-> breakdown[k]])

\* the keys of a breakdown shown as Internal
InternalKeysOf(breakdown) == {k \in DOMAIN breakdown : Lower(k) \in {"yes", "true", "1", "internal"}}

\* C29: the labels of the internal/external chart keep the counts: Internal
\* shows the total of the keys yes, true, 1 and internal (in any letter case),
\* External the total of all other keys, so the two sum to the breakdown's
\* counts.
C29_LabelsKeepCounts ==
    \A i \in DOMAIN calls :
        (/\ calls[i].fn = "create_internal_external_chart"
         /\ calls[i].arg.available
         /\ DOMAIN calls[i].arg.breakdown # {}) =>
            LET breakdown == calls[i].arg.breakdown
                shown == calls[i].ret
            IN  /\ Shown(shown, "Internal") = TotalOf(breakdown, InternalKeysOf(breakdown))
                /\ Shown(shown, "External") =
                       TotalOf(breakdown, DOMAIN breakdown \ InternalKeysOf(breakdown))
                /\ Shown(shown, "Internal") + Shown(shown, "External") = TallySum(breakdown)

\* C29, its case: two cases 'Yes', one case 'TRUE' and no other; the chart
\* shows one Internal case
C29_InternalCountLost ==
    \E i \in DOMAIN calls :
        /\ calls[i].fn = "create_internal_external_chart"
        /\ calls[i].arg.available
        /\ calls[i].arg.breakdown = ("Yes" :> 2) @@ ("TRUE" :> 1)
        /\ calls[i].ret = ("Internal" :> 1)

====
